---- MODULE Spec2Model ----
(***************************************************************************)
(* Model of the RAJA CUDA forall launch path (policy/cuda/forall.hpp), of *)
(* the Teams launch dispatcher, loop and policy multiplexer                *)
(* (pattern/teams/teams_core.hpp) and of the OpenMP forall and reductions  *)
(* (forall_omp_any.hxx).                                                   *)
(*                                                                         *)
(* One host thread calls forall / forall_Icount over cuda_exec; the device *)
(* runs the kernels of stream 0 in issue order, the execution units of a   *)
(* kernel interleaving freely.                                             *)
(***************************************************************************)
EXTENDS Integers, Sequences, FiniteSets, TLC

VARIABLES
  MAX_THREADS_PER_SM, \* build-time macro used by getGridDim
  BlockSize,          \* template argument of the cuda_exec policy in use
  hw_num_sm,          \* what cudaDeviceGetAttribute reports for device 0
  num_sm,             \* static int num_sm[8] of getGridDim
  pc,                 \* position of the host thread inside forall
  call,               \* the forall call in progress, or the last one
  stream,             \* kernels issued and not yet completed, in issue order
  lastError,          \* the CUDA runtime's last launch error
  probe,              \* last direct getGridDim call (SpecGrid)
  lpc,                \* position of the host thread inside launch
  lplace,             \* place argument of the launch call
  lres,               \* the caller's Resources descriptor
  ctx,                \* the LaunchContext handed to the launch strategy
  strategy,           \* per launch strategy: number of exec calls
  bodyPlaces,         \* exec_place values the body read from its context
  bodyRes,            \* teams, threads and lanes the body read
  team,               \* a launch body running on its teams and threads
  mux,                \* a kernel_impl call and its instrumentation region
  lp,                 \* the last two calls of loop
  queries,            \* hardware queries of the compute-unit count so far
  ls,                 \* a team whose threads run a loop and go on
  race,               \* two host threads inside getGridDim
  conc,               \* a descriptor and the launches made from it
  omp,                \* an OpenMP forall or reduction in progress
  iset,               \* a forall over an index set, segment by segment
  reg                 \* the static region of kernel_impl and its callers

cudaVars == <<MAX_THREADS_PER_SM, BlockSize, hw_num_sm, num_sm, pc, call, stream,
              lastError>>
teamVars == <<lpc, lplace, lres, ctx, strategy, bodyPlaces, bodyRes>>
extVars == <<team, mux, lp>>
hostVars == <<queries, ls, race, conc, omp>>
setVars == <<iset, reg>>
vars == <<MAX_THREADS_PER_SM, BlockSize, hw_num_sm, num_sm, pc, call, stream,
          lastError, probe, lpc, lplace, lres, ctx, strategy,
          bodyPlaces, bodyRes, team, mux, lp, queries, ls, race, conc, omp,
          iset, reg>>

----------------------------------------------------------------------------
(* Bounds *)

MaxLen == 3
MaxBlock == 2
MaxSM == 2
MaxCalls == 2

Lens == (0 - 1)..MaxLen
BlockSizes == 0..MaxBlock
ThreadLimits == {1, 2}
Icounts == {5}

MaxDim == 2
MaxQueries == 2

\* inputs of the direct getGridDim calls (SpecGrid)
GridLens == (0..MaxLen) \cup {1000}
GridDims == {1, 2, 256}
GridShapes == GridDims \X GridDims \X GridDims
GridThreadLimits == ThreadLimits \cup {2048}
GridNumSMs == (0..MaxSM) \cup {20}

\* inputs of launch (SpecLaunch)
DimVals == 1..MaxDim
Places == {"HOST", "DEVICE", "NUM_PLACES"}

\* inputs of a launch body that calls teamSync (SpecTeam)
MaxSyncs == 2
TeamShapes == {<<1, 2>>, <<2, 1>>, <<2, 2>>}
AllThreads == (0..1) \X (0..1)

\* inputs of the policy multiplexer (SpecMux)
MaxPolicies == 3
VariantKinds == {"CudaKernel", "CudaKernelAsync"}

\* inputs of loop (SpecLoop): a segment of dimension d holds the index
\* values 10*(d+1), 10*(d+1)+1, ...; a 3-D loop is n x 2 x 2
MaxSeg == 2
Segment(d, n) == [i \in 1..n |-> 10 * (d + 1) + i - 1]
SegLists ==
  {<<Segment(0, n)>> : n \in 1..MaxSeg}
    \cup {<<Segment(0, n[1]), Segment(1, n[2])>> :
             n \in (1..MaxSeg) \X (1..MaxSeg)}
    \cup {<<Segment(0, n), Segment(1, 2), Segment(2, 2)>> : n \in 1..MaxSeg}
LoopPlaces == {"HOST", "DEVICE"}

\* inputs of a team whose threads run a loop and go on (SpecLoopSync)
MaxIter == 3
TeamSizes == {2, 3}

\* constructor arguments of Teams and Threads (SpecDesc): any int
ArgVals == (0 - 1)..MaxDim
ArgLists(n) ==
  UNION {[1..k -> ArgVals] : k \in 0..n}
LaunchIds == {1, 2}

\* inputs of the OpenMP forall and reductions (SpecOmp)
MaxEnd == 3
MaxThreads == 2
OmpKinds == {"forall", "forall_idx", "sum", "sum_stride", "minloc", "maxloc"}
OmpBegins == {0, 1}
OmpEnds == 0..MaxEnd
OmpThreads == 1..MaxThreads
Incoming == {0 - 1, 2, 5}
\* *loc before a forall_minloc / forall_maxloc call
IncomingLocs == {0 - 1, 7}
\* hybrid index sets of up to two segments
SegmentTypes == {"_Range_", "_RangeStride_", "_Unstructured_"}
HybridSegments == [type : SegmentTypes, begin : {0, 1}, end : 0..MaxSeg]
HybridISets == UNION {[1..n -> HybridSegments] : n \in 0..2}
\* the data the loop bodies read: f(i), with the minimum of f(0..2) at
\* two indices and the maximum of f(0..3) at two indices
ValAt(i) == <<3, 1, 1, 3, 0>>[(i % 5) + 1]

\* inputs of forall over an index set (SpecISet): up to MaxCalls segments
SegLens == {0, 1, MaxLen}
IndexSets == UNION {[1..n -> SegLens] : n \in 0..MaxCalls}
IcountShifts == {0, 5}

Min(a, b) == IF a <= b THEN a ELSE b

----------------------------------------------------------------------------
(* The iterable: idx[i], an indirection array in which index values       *)
(* repeat, so that a position and the index value stored at it differ.     *)

IdxAt(i) == 20 + (i % 2)

----------------------------------------------------------------------------
(* getGridDim, forall.hpp:95-110 *)

\* unsigned int product; the shapes drawn here stay far below 2^32
BlockSizeOf(blockDim) == blockDim[1] * blockDim[2] * blockDim[3]

\* num_sm[device] after the lazy query of lines 102-104
NumSmAfterQuery(cache, device, hw) ==
  IF cache[device] = 0 THEN [cache EXCEPT ![device] = hw] ELSE cache

\* the hardware queries made so far, after the test of line 102 (counted
\* up to MaxQueries)
QueriesAfter(q, cache, device) ==
  IF cache[device] = 0 THEN Min(q + 1, MaxQueries) ELSE q

getGridDim_FloorLen(len, blockDim, nsm, limit) ==
  LET block_size == BlockSizeOf(blockDim)
      max_concurrent_blocks == nsm * (limit \div block_size)
      gridSizeMax == len \div block_size
  IN  Min(gridSizeMax, max_concurrent_blocks)
getGridDim(len, blockDim, nsm, limit) ==
  LET block_size == BlockSizeOf(blockDim)
      max_concurrent_blocks == nsm * (limit \div block_size)
      gridSizeMax == (len + block_size - 1) \div block_size
  IN  Min(gridSizeMax, max_concurrent_blocks)

\* size_t BlockSize converted to dim3
Dim3(n) == <<n, 1, 1>>

----------------------------------------------------------------------------
(* Device side: forall_cuda_kernel / forall_Icount_cuda_kernel *)

getGlobalIdx_1D_1D(blockIdx, threadIdx, blockDim) ==
  blockIdx * blockDim + threadIdx

getGlobalNumThreads_BlockOnly(blockDim, gridDim) == blockDim
getGlobalNumThreads_1D_1D(blockDim, gridDim) == blockDim * gridDim

Units(gridDim, blockDim) == (0..(gridDim - 1)) \X (0..(blockDim - 1))

\* arguments of one body invocation at position ii
BodyArgs_IndexAsCount(k, ii) ==
  IF k.kind = "forall" THEN <<IdxAt(ii)>>
  ELSE <<IdxAt(ii) + k.icount, IdxAt(ii)>>
BodyArgs(k, ii) ==
  IF k.kind = "forall" THEN <<IdxAt(ii)>>
  ELSE <<ii + k.icount, IdxAt(ii)>>

\* cudaStream_t stream = 0;  (forall.hpp:242, 280)
StreamOf_PerCall(id) == id
StreamOf(id) == 0

NewKernel(c) ==
  [id |-> c.id, kind |-> c.kind, len |-> c.len, icount |-> c.icount,
   gridDim |-> c.gridSize, blockDim |-> c.bs,
   stream |-> StreamOf(c.id),
   ii |-> [u \in Units(c.gridSize, c.bs) |->
             getGlobalIdx_1D_1D(u[1], u[2], c.bs)],
   visits |-> [p \in 0..(c.len - 1) |-> <<>>],
   by |-> [p \in 0..(c.len - 1) |-> <<>>]]

UnitDone(k, u) == k.ii[u] >= k.len
KernelDone_ExactEnd(k) == \A u \in DOMAIN k.ii : k.ii[u] = k.len
KernelDone(k) == \A u \in DOMAIN k.ii : UnitDone(k, u)

\* a kernel runs once every earlier kernel of its stream has completed
Runnable(i) ==
  /\ i \in 1..Len(stream)
  /\ \A j \in 1..(i - 1) : stream[j].stream # stream[i].stream


----------------------------------------------------------------------------
(* Host side: forall(cuda_exec) and forall_Icount(cuda_exec),              *)
(* forall.hpp:226-293                                                      *)

NoCall ==
  [id |-> 0, kind |-> "forall", len |-> 0, bs |-> 0, async |-> FALSE,
   icount |-> 0, gridSize |-> 0, gridCalls |-> 0, launches |-> 0,
   peeks |-> 0, syncs |-> 0, failed |-> FALSE, invoked |-> 0,
   ret |-> "none"]

\* cuda::peekAtLastError(): a pending launch error aborts the program
peekAtLastError(err) == IF err THEN "fatal" ELSE "post"

\* cuda::synchronize(stream) returns once the stream holds no kernel
StreamIdle(s) == \A i \in 1..Len(stream) : stream[i].stream # s

\* what the caller finds when the call returns
KernelState(id) ==
  IF \E i \in 1..Len(stream) : stream[i].id = id THEN "pending"
  ELSE "complete"

\* if (len > 0 && BlockSize > 0)  (lines 236, 274)
LaunchGuard_LenGe0(len, bs) == len >= 0 /\ bs > 0
LaunchGuard(len, bs) == len > 0 /\ bs > 0

\* lines 231-238 / 269-276: take the length, test the guard, size the grid
ForallBegin(kind, len, bs, async, icount) ==
  /\ pc = "idle"
  /\ call.id < MaxCalls
  /\ IF LaunchGuard(len, bs)
     THEN /\ num_sm' = NumSmAfterQuery(num_sm, 0, hw_num_sm)
          /\ queries' = QueriesAfter(queries, num_sm, 0)
          /\ call' = [NoCall EXCEPT
                        !.id = call.id + 1, !.kind = kind, !.len = len,
                        !.bs = bs, !.async = async,
                        !.icount = IF kind = "forall" THEN 0 ELSE icount,
                        !.gridCalls = 1,
                        !.gridSize = getGridDim(len, Dim3(bs), num_sm'[0],
                                                MAX_THREADS_PER_SM)]
          /\ pc' = "issue"
     ELSE /\ call' = [NoCall EXCEPT
                        !.id = call.id + 1, !.kind = kind, !.len = len,
                        !.bs = bs, !.async = async,
                        !.icount = IF kind = "forall" THEN 0 ELSE icount,
                        !.ret = "nokernel"]
          /\ pc' = "idle"
          /\ num_sm' = num_sm
          /\ queries' = queries
  /\ UNCHANGED <<MAX_THREADS_PER_SM, BlockSize, hw_num_sm, stream, lastError, probe>>
  /\ UNCHANGED teamVars
  /\ UNCHANGED extVars
  /\ UNCHANGED <<ls, race, conc, omp>>
  /\ UNCHANGED setVars

\* lines 244-247 / 282-285: kernel<<<gridSize, BlockSize, 0, stream>>>(...)
\* A grid of 0 blocks is an invalid configuration; the runtime can also
\* refuse a valid one (resources exhausted).
IssueKernelTo(next) ==
  /\ pc = "issue"
  /\ \E accepted \in BOOLEAN :
       IF call.gridSize >= 1 /\ accepted
       THEN /\ stream' = Append(stream, NewKernel(call))
            /\ call' = [call EXCEPT !.launches = @ + 1]
            /\ lastError' = lastError
       ELSE /\ stream' = stream
            /\ call' = [call EXCEPT !.launches = @ + 1, !.failed = TRUE]
            /\ lastError' = TRUE
  /\ pc' = next
  /\ UNCHANGED <<MAX_THREADS_PER_SM, BlockSize, hw_num_sm, num_sm, probe>>
  /\ UNCHANGED teamVars
  /\ UNCHANGED extVars
  /\ UNCHANGED hostVars
  /\ UNCHANGED setVars

IssueKernel_NoPeek == IssueKernelTo("post")
IssueKernel_Again ==
  IssueKernelTo(IF call.launches = 0 THEN "issue" ELSE "peek")
IssueKernel == IssueKernelTo("peek")

\* line 248 / 286
PeekAtLastError ==
  /\ pc = "peek"
  /\ pc' = peekAtLastError(lastError)
  /\ call' = [call EXCEPT !.peeks = @ + 1]
  /\ UNCHANGED <<MAX_THREADS_PER_SM, BlockSize, hw_num_sm, num_sm, stream,
                 lastError, probe>>
  /\ UNCHANGED teamVars
  /\ UNCHANGED extVars
  /\ UNCHANGED hostVars
  /\ UNCHANGED setVars

\* lines 250-251 / 288-289: cuda::launch(stream); if (!Async) synchronize
PostLaunchIf(wait) ==
  /\ pc = "post"
  /\ IF wait
     THEN /\ pc' = "sync"
          /\ call' = call
     ELSE /\ pc' = "idle"
          /\ call' = [call EXCEPT !.ret = KernelState(call.id)]
  /\ UNCHANGED <<MAX_THREADS_PER_SM, BlockSize, hw_num_sm, num_sm, stream,
                 lastError, probe>>
  /\ UNCHANGED teamVars
  /\ UNCHANGED extVars
  /\ UNCHANGED hostVars
  /\ UNCHANGED setVars

PostLaunch_NoWait == PostLaunchIf(FALSE)
PostLaunch == PostLaunchIf(~call.async)

\* line 251 / 289: the blocked cuda::synchronize(stream) returns
Synchronize ==
  /\ pc = "sync"
  /\ StreamIdle(StreamOf(call.id))
  /\ call' = [call EXCEPT !.syncs = @ + 1, !.ret = KernelState(call.id)]
  /\ pc' = "idle"
  /\ UNCHANGED <<MAX_THREADS_PER_SM, BlockSize, hw_num_sm, num_sm, stream,
                 lastError, probe>>
  /\ UNCHANGED teamVars
  /\ UNCHANGED extVars
  /\ UNCHANGED hostVars
  /\ UNCHANGED setVars

----------------------------------------------------------------------------
(* Device side *)

\* one pass of the loop of lines 178-180 / 206-208 by unit u of kernel i
UnitStep(i, u) ==
  /\ Runnable(i)
  /\ LET k == stream[i]
         gridThreads == getGlobalNumThreads_1D_1D(k.blockDim, k.gridDim)
     IN  /\ k.ii[u] < k.len
         /\ stream' = [stream EXCEPT
                         ![i].visits[k.ii[u]] = Append(@, BodyArgs(k, k.ii[u])),
                         ![i].by[k.ii[u]] = Append(@, u),
                         ![i].ii[u] = @ + gridThreads]
         /\ call' = IF k.id = call.id THEN [call EXCEPT !.invoked = @ + 1]
                    ELSE call
  /\ UNCHANGED <<MAX_THREADS_PER_SM, BlockSize, hw_num_sm, num_sm, pc,
                 lastError, probe>>
  /\ UNCHANGED teamVars
  /\ UNCHANGED extVars
  /\ UNCHANGED hostVars
  /\ UNCHANGED setVars

\* every unit has left its loop: the kernel leaves the stream
KernelComplete(i) ==
  /\ Runnable(i)
  /\ KernelDone(stream[i])
  /\ stream' = [j \in 1..(Len(stream) - 1) |->
                  IF j < i THEN stream[j] ELSE stream[j + 1]]
  /\ UNCHANGED <<MAX_THREADS_PER_SM, BlockSize, hw_num_sm, num_sm, pc, call,
                 lastError, probe>>
  /\ UNCHANGED teamVars
  /\ UNCHANGED extVars
  /\ UNCHANGED hostVars
  /\ UNCHANGED setVars

----------------------------------------------------------------------------
(* A direct call of cuda::impl::getGridDim with a 3-D block shape *)

NoProbe == [len |-> 0, blockDim |-> <<0, 0, 0>>, result |-> 0,
            valid |-> FALSE]

GetGridDimCall(len, blockDim) ==
  /\ BlockSizeOf(blockDim) > 0
  /\ num_sm' = NumSmAfterQuery(num_sm, 0, hw_num_sm)
  /\ queries' = QueriesAfter(queries, num_sm, 0)
  /\ probe' = [len |-> len, blockDim |-> blockDim, valid |-> TRUE,
               result |-> getGridDim(len, blockDim, num_sm'[0],
                                     MAX_THREADS_PER_SM)]
  /\ UNCHANGED <<MAX_THREADS_PER_SM, BlockSize, hw_num_sm, pc, call, stream,
                 lastError>>
  /\ UNCHANGED teamVars
  /\ UNCHANGED extVars
  /\ UNCHANGED <<ls, race, conc, omp>>
  /\ UNCHANGED setVars

----------------------------------------------------------------------------
(* Teams: Resources, LaunchContext and launch, teams_core.hpp:83-206 *)

Teams0 == <<1, 1, 1>>
Teams1(i) == <<i, 1, 1>>
Teams2_ZeroFill(i, j) == <<i, j, 0>>
Teams2(i, j) == <<i, j, 1>>
Teams3(i, j, k) == <<i, j, k>>
Threads0 == <<1, 1, 1>>
Threads1(i) == <<i, 1, 1>>
Threads2(i, j) == <<i, j, 1>>
Threads3(i, j, k) == <<i, j, k>>
Lanes0 == 0

\* Resources(Teams in_teams, Threads in_threads)
Resources(in_teams, in_threads) ==
  [teams |-> in_teams, threads |-> in_threads, lanes |-> Lanes0]

\* LaunchContext(Resources const &base, ExecPlace place)
LaunchContext_DefaultBase(base, place) ==
  [teams |-> Teams0, threads |-> Threads0, lanes |-> Lanes0,
   exec_place |-> place]
LaunchContext(base, place) ==
  [teams |-> base.teams, threads |-> base.threads, lanes |-> base.lanes,
   exec_place |-> place]

NoRes == [teams |-> <<0, 0, 0>>, threads |-> <<0, 0, 0>>, lanes |-> 0]
NoCtx == LaunchContext(NoRes, "none")
NoStrategy == [s \in {"host", "device"} |-> 0]

\* the switch of launch: which LaunchExecute runs, and with which place
\* the context is built; "throw" is the default branch
SwitchPlace_DeviceAsHost(place) ==
  CASE place = "HOST" -> [policy |-> "host", exec_place |-> "HOST"]
    [] place = "DEVICE" -> [policy |-> "host", exec_place |-> "HOST"]
    [] OTHER -> [policy |-> "throw", exec_place |-> "none"]
SwitchPlace_DefaultHost(place) ==
  CASE place = "HOST" -> [policy |-> "host", exec_place |-> "HOST"]
    [] place = "DEVICE" -> [policy |-> "device", exec_place |-> "DEVICE"]
    [] OTHER -> [policy |-> "host", exec_place |-> "HOST"]
SwitchPlace(place) ==
  CASE place = "HOST" -> [policy |-> "host", exec_place |-> "HOST"]
    [] place = "DEVICE" -> [policy |-> "device", exec_place |-> "DEVICE"]
    [] OTHER -> [policy |-> "throw", exec_place |-> "none"]

\* launch(place, team_resources, body) up to the call of launch_t::exec
LaunchCall(place, res) ==
  /\ lpc = "idle"
  /\ lplace' = place
  /\ lres' = res
  /\ bodyPlaces' = {}
  /\ bodyRes' = NoRes
  /\ LET sw == SwitchPlace(place)
     IN  IF sw.policy = "throw"
         THEN /\ lpc' = "thrown"
              /\ ctx' = NoCtx
              /\ strategy' = NoStrategy
         ELSE /\ lpc' = "exec"
              /\ ctx' = LaunchContext(res, sw.exec_place)
              /\ strategy' = [NoStrategy EXCEPT ![sw.policy] = 1]
  /\ UNCHANGED cudaVars
  /\ UNCHANGED probe
  /\ UNCHANGED extVars
  /\ UNCHANGED hostVars
  /\ UNCHANGED setVars

\* LaunchExecute<policy>::exec(ctx, body): the strategy runs the body,
\* which reads its context
LaunchExec ==
  /\ lpc = "exec"
  /\ bodyPlaces' = bodyPlaces \cup {ctx.exec_place}
  /\ bodyRes' = [teams |-> ctx.teams, threads |-> ctx.threads,
                 lanes |-> ctx.lanes]
  /\ lpc' = "ran"
  /\ UNCHANGED <<lplace, lres, ctx, strategy>>
  /\ UNCHANGED cudaVars
  /\ UNCHANGED probe
  /\ UNCHANGED extVars
  /\ UNCHANGED hostVars
  /\ UNCHANGED setVars

\* break; launch returns.  A thrown launch is left by its caller's handler.
LaunchReturn ==
  /\ lpc \in {"ran", "thrown"}
  /\ lpc' = "idle"
  /\ UNCHANGED <<lplace, lres, ctx, strategy, bodyPlaces, bodyRes>>
  /\ UNCHANGED cudaVars
  /\ UNCHANGED probe
  /\ UNCHANGED extVars
  /\ UNCHANGED hostVars
  /\ UNCHANGED setVars

TeamIdle ==
  /\ lpc = "idle"
  /\ lplace = "none"
  /\ lres = NoRes
  /\ ctx = NoCtx
  /\ strategy = NoStrategy
  /\ bodyPlaces = {}
  /\ bodyRes = NoRes

NoTeam == [active |-> FALSE]
NoMux == [active |-> FALSE]
NoLoop == <<>>

NoLs == [active |-> FALSE]
NoRace == [active |-> FALSE]
NoConc == [active |-> FALSE]
NoOmp == [active |-> FALSE]
NoISet == [active |-> FALSE]
NoReg == [active |-> FALSE]

ExtIdle ==
  /\ team = NoTeam
  /\ mux = NoMux
  /\ lp = NoLoop
  /\ queries = 0
  /\ ls = NoLs
  /\ race = NoRace
  /\ conc = NoConc
  /\ omp = NoOmp
  /\ iset = NoISet
  /\ reg = NoReg

----------------------------------------------------------------------------
(* LaunchContext::teamSync, teams_core.hpp:174-180, called by the threads  *)
(* of the teams that run a launch body                                     *)

\* #if defined(RAJA_DEVICE_CODE) __syncthreads(); #endif
teamSync_AlwaysBarrier(deviceCode) == TRUE
teamSync_NeverBarrier(deviceCode) == FALSE
teamSync_Barrier(deviceCode) == deviceCode

\* the threads of a launch: <<team, thread>>
ThreadsOf(c) == (0..(c.teams[1] - 1)) \X (0..(c.threads[1] - 1))
SameTeam(t, u) == t[1] = u[1]

\* the body calls teamSync n times on every thread, except that thread odd
\* (if it is one of the launch) calls it m times
PlanOf(c, n, odd, m) == [t \in ThreadsOf(c) |-> IF t = odd THEN m ELSE n]

TeamLaunch(place, shape, n, odd, m) ==
  /\ ~team.active
  /\ LET c == LaunchContext(Resources(Teams1(shape[1]), Threads1(shape[2])),
                            place)
     IN  team' = [active |-> TRUE, ctx |-> c, complete |-> FALSE,
                  plan |-> PlanOf(c, n, odd, m),
                  calls |-> [t \in ThreadsOf(c) |-> 0],
                  tpc |-> [t \in ThreadsOf(c) |-> "run"]]
  /\ UNCHANGED <<mux, lp, probe>>
  /\ UNCHANGED hostVars
  /\ UNCHANGED cudaVars
  /\ UNCHANGED teamVars
  /\ UNCHANGED setVars

\* thread t calls ctx.teamSync()
TeamSyncCall(t) ==
  /\ team.active
  /\ t \in DOMAIN team.tpc
  /\ team.tpc[t] = "run"
  /\ team.calls[t] < team.plan[t]
  /\ team' = [team EXCEPT
                !.calls[t] = @ + 1,
                !.tpc[t] = IF teamSync_Barrier(team.ctx.exec_place = "DEVICE")
                           THEN "wait" ELSE "run"]
  /\ UNCHANGED <<mux, lp, probe>>
  /\ UNCHANGED hostVars
  /\ UNCHANGED cudaVars
  /\ UNCHANGED teamVars
  /\ UNCHANGED setVars

\* __syncthreads() returns in thread t: every thread of its team has
\* reached the barrier t waits at
BarrierPass_ExitedArrive(t) ==
  /\ team.active
  /\ t \in DOMAIN team.tpc
  /\ team.tpc[t] = "wait"
  /\ \A u \in DOMAIN team.tpc :
       SameTeam(t, u) =>
         team.calls[u] >= team.calls[t] \/ team.tpc[u] = "done"
  /\ team' = [team EXCEPT !.tpc[t] = "run"]
  /\ UNCHANGED <<mux, lp, probe>>
  /\ UNCHANGED hostVars
  /\ UNCHANGED cudaVars
  /\ UNCHANGED teamVars
  /\ UNCHANGED setVars
BarrierPass(t) ==
  /\ team.active
  /\ t \in DOMAIN team.tpc
  /\ team.tpc[t] = "wait"
  /\ \A u \in DOMAIN team.tpc :
       SameTeam(t, u) => team.calls[u] >= team.calls[t]
  /\ team' = [team EXCEPT !.tpc[t] = "run"]
  /\ UNCHANGED <<mux, lp, probe>>
  /\ UNCHANGED hostVars
  /\ UNCHANGED cudaVars
  /\ UNCHANGED teamVars
  /\ UNCHANGED setVars

\* thread t leaves the body
ThreadExit(t) ==
  /\ team.active
  /\ t \in DOMAIN team.tpc
  /\ team.tpc[t] = "run"
  /\ team.calls[t] = team.plan[t]
  /\ team' = [team EXCEPT !.tpc[t] = "done"]
  /\ UNCHANGED <<mux, lp, probe>>
  /\ UNCHANGED hostVars
  /\ UNCHANGED cudaVars
  /\ UNCHANGED teamVars
  /\ UNCHANGED setVars

\* all threads have left the body: the launch is complete
TeamComplete ==
  /\ team.active
  /\ ~team.complete
  /\ \A t \in DOMAIN team.tpc : team.tpc[t] = "done"
  /\ team' = [team EXCEPT !.complete = TRUE]
  /\ UNCHANGED <<mux, lp, probe>>
  /\ UNCHANGED hostVars
  /\ UNCHANGED cudaVars
  /\ UNCHANGED teamVars
  /\ UNCHANGED setVars

\* the caller goes on to its next launch
TeamFinish ==
  /\ team.active
  /\ team.complete
  /\ team' = NoTeam
  /\ UNCHANGED <<mux, lp, probe>>
  /\ UNCHANGED hostVars
  /\ UNCHANGED cudaVars
  /\ UNCHANGED teamVars
  /\ UNCHANGED setVars

----------------------------------------------------------------------------
(* apollo_multi: kernel_impl, KernelPolicyGenerator and the launch hooks,  *)
(* teams_core.hpp:295-485                                                  *)

\* if (policy == idx)   (line 362)
MatchAt_LessEq(policy, idx) == policy <= idx
MatchAt(policy, idx) == policy = idx

\* the statements of the matched branch, lines 364-369
MatchedSteps_KernelFirst == <<"kernel", "pre", "post">>
MatchedSteps == <<"pre", "kernel", "post">>

\* PreLaunchKernel<stmt_t>::exec: only the CudaKernelAsync specialization
\* attaches callback data and the is-done callback to the context
PreLaunchCallback_Never(stmt) == FALSE
PreLaunchCallback(stmt) == stmt = "CudaKernelAsync"

\* the statements of PreLaunchKernel<stmt_t>::exec in order; cbdata is
\* what region->callback_pool->get() returned (lines 298-301, 315-326)
PreLaunchEvents(stmt, cbdata) ==
  IF stmt = "CudaKernelAsync"
  THEN <<(<<"get", cbdata>>), (<<"attach", cbdata>>), (<<"start", cbdata>>)>>
  ELSE <<>>

\* context->callback_arg after the pre-launch hook
CallbackArg(stmt, cbdata, old) ==
  IF stmt = "CudaKernelAsync" THEN cbdata ELSE old

\* the statements of PostLaunchKernel<stmt_t>::exec in order; the stop
\* event is that of context->callback_arg (lines 305-309, 332-340)
PostLaunchEvents_EndFirst(stmt, callback_arg) ==
  IF stmt = "CudaKernelAsync"
  THEN <<(<<"end", 0>>), (<<"stop", callback_arg>>)>>
  ELSE <<(<<"end", 0>>)>>
PostLaunchEvents(stmt, callback_arg) ==
  IF stmt = "CudaKernelAsync"
  THEN <<(<<"stop", callback_arg>>), (<<"end", 0>>)>>
  ELSE <<(<<"end", 0>>)>>

\* region->end(context): a context with an is-done callback is kept
\* pending until the callback reports completion, any other is closed
RegionEnd(hasCallback) == IF hasCallback THEN "pending" ELSE "closed"

\* kernel_impl up to the call of KernelPolicyGenerator: the region context
\* is begun and the policy index obtained (lines 468-480)
KernelImplCall(policy, kinds) ==
  /\ ~mux.active
  /\ mux' = [active |-> TRUE, policy |-> policy, kinds |-> kinds,
             num_policies |-> Len(kinds), idx |-> 0, mpc |-> "generate",
             todo |-> <<>>, log |-> <<>>, rctx |-> "begun",
             callback |-> FALSE, dev |-> "none", ends |-> 0,
             events |-> <<>>, cbarg |-> 0]
  /\ UNCHANGED <<team, lp, probe>>
  /\ UNCHANGED hostVars
  /\ UNCHANGED cudaVars
  /\ UNCHANGED teamVars
  /\ UNCHANGED setVars

\* region->end calls after the terminal specialization's generate: its
\* body is empty
TerminalEnds_Closes(ends) == ends + 1
TerminalEnds(ends) == ends

\* KernelPolicyGeneratorSingle<idx, num_policies>::generate: the terminal
\* specialization does nothing, the general one compares and recurses
Generate ==
  /\ mux.active
  /\ mux.mpc = "generate"
  /\ IF mux.idx = mux.num_policies
     THEN mux' = [mux EXCEPT !.mpc = "return", !.ends = TerminalEnds(@)]
     ELSE IF MatchAt(mux.policy, mux.idx)
          THEN mux' = [mux EXCEPT !.mpc = "matched", !.todo = MatchedSteps]
          ELSE mux' = [mux EXCEPT !.idx = @ + 1]
  /\ UNCHANGED <<team, lp, probe>>
  /\ UNCHANGED hostVars
  /\ UNCHANGED cudaVars
  /\ UNCHANGED teamVars
  /\ UNCHANGED setVars

\* PreLaunchKernel<stmt_t>::exec(region, context)
PreLaunch ==
  /\ mux.active
  /\ mux.mpc = "matched"
  /\ mux.todo # <<>> /\ Head(mux.todo) = "pre"
  /\ mux' = [mux EXCEPT
               !.todo = Tail(@),
               !.log = Append(@, <<"pre", mux.idx>>),
               !.callback = PreLaunchCallback(mux.kinds[mux.idx + 1]),
               !.events = @ \o PreLaunchEvents(mux.kinds[mux.idx + 1], 1),
               !.cbarg = CallbackArg(mux.kinds[mux.idx + 1], 1, @)]
  /\ UNCHANGED <<team, lp, probe>>
  /\ UNCHANGED hostVars
  /\ UNCHANGED cudaVars
  /\ UNCHANGED teamVars
  /\ UNCHANGED setVars

\* RAJA::kernel<ExecutionPolicy>(segments, bodies...): an asynchronous
\* device kernel is still running when the call returns
RunVariant ==
  /\ mux.active
  /\ mux.mpc = "matched"
  /\ mux.todo # <<>> /\ Head(mux.todo) = "kernel"
  /\ mux' = [mux EXCEPT
               !.todo = Tail(@),
               !.log = Append(@, <<"kernel", mux.idx>>),
               !.events = Append(@, <<"kernel", mux.idx>>),
               !.dev = IF mux.kinds[mux.idx + 1] = "CudaKernelAsync"
                       THEN "running" ELSE "finished"]
  /\ UNCHANGED <<team, lp, probe>>
  /\ UNCHANGED hostVars
  /\ UNCHANGED cudaVars
  /\ UNCHANGED teamVars
  /\ UNCHANGED setVars

\* PostLaunchKernel<stmt_t>::exec(region, context): (record the stop
\* event and) call region->end(context)
PostLaunchHook ==
  /\ mux.active
  /\ mux.mpc = "matched"
  /\ mux.todo # <<>> /\ Head(mux.todo) = "post"
  /\ mux' = [mux EXCEPT
               !.todo = Tail(@),
               !.log = Append(@, <<"post", mux.idx>>),
               !.rctx = RegionEnd(mux.callback),
               !.events = @ \o PostLaunchEvents(mux.kinds[mux.idx + 1],
                                                 mux.cbarg),
               !.ends = @ + 1]
  /\ UNCHANGED <<team, lp, probe>>
  /\ UNCHANGED hostVars
  /\ UNCHANGED cudaVars
  /\ UNCHANGED teamVars
  /\ UNCHANGED setVars

\* the matched branch is over: generate returns through all its callers
GenerateReturn ==
  /\ mux.active
  /\ mux.mpc = "matched"
  /\ mux.todo = <<>>
  /\ mux' = [mux EXCEPT !.mpc = "return"]
  /\ UNCHANGED <<team, lp, probe>>
  /\ UNCHANGED hostVars
  /\ UNCHANGED cudaVars
  /\ UNCHANGED teamVars
  /\ UNCHANGED setVars

\* the asynchronous kernel finishes on the device
DeviceKernelFinish ==
  /\ mux.active
  /\ mux.dev = "running"
  /\ mux' = [mux EXCEPT !.dev = "finished"]
  /\ UNCHANGED <<team, lp, probe>>
  /\ UNCHANGED hostVars
  /\ UNCHANGED cudaVars
  /\ UNCHANGED teamVars
  /\ UNCHANGED setVars

\* the is-done callback of a pending context reports completion (the stop
\* event has been reached): the region closes the context
RegionCollect ==
  /\ mux.active
  /\ mux.rctx = "pending"
  /\ mux.dev = "finished"
  /\ mux' = [mux EXCEPT !.rctx = "closed"]
  /\ UNCHANGED <<team, lp, probe>>
  /\ UNCHANGED hostVars
  /\ UNCHANGED cudaVars
  /\ UNCHANGED teamVars
  /\ UNCHANGED setVars

\* kernel_impl has returned; the caller goes on to its next kernel
KernelImplNext ==
  /\ mux.active
  /\ mux.mpc = "return"
  /\ mux.dev # "running"
  /\ mux.rctx # "pending"
  /\ mux' = NoMux
  /\ UNCHANGED <<team, lp, probe>>
  /\ UNCHANGED hostVars
  /\ UNCHANGED cudaVars
  /\ UNCHANGED teamVars
  /\ UNCHANGED setVars

----------------------------------------------------------------------------
(* loop: the 1-D, 2-D and 3-D overloads, teams_core.hpp:208-271 *)

\* #if defined(RAJA_DEVICE_CODE) ... #else ... #endif
LoopPolicy_ByPlace(deviceCode, c) ==
  IF c.exec_place = "DEVICE" THEN "device_policy_t" ELSE "host_policy_t"
LoopPolicy(deviceCode, c) ==
  IF deviceCode THEN "device_policy_t" ELSE "host_policy_t"

\* the segments handed to LoopExecute<...>::exec, in the caller's order
LoopArgs_Swapped(segs) ==
  IF Len(segs) = 1 THEN segs
  ELSE <<segs[2], segs[1]>> \o SubSeq(segs, 3, Len(segs))
LoopArgs(segs) == segs

\* LoopExecute<POLICY, SEGMENT>::exec: the host strategy iterates in the
\* calling thread; the device strategy strides dimension 0 over the teams
\* and dimension 1 over the threads of a team, and every further dimension
\* is iterated whole by each unit
Geometry(strat, c) ==
  IF strat = "device_policy_t"
  THEN <<c.teams[1], c.threads[1]>>
  ELSE <<1, 1>>

LoopUnits(geom) == (0..(geom[1] - 1)) \X (0..(geom[2] - 1))

SizeAt(passed, d) == IF d <= Len(passed) THEN Len(passed[d]) ELSE 1

\* the index triples of unit u (1-based positions in each segment)
UnitIndices(passed, geom, u) ==
  {i \in (1..SizeAt(passed, 1)) \X (1..SizeAt(passed, 2))
           \X (1..SizeAt(passed, 3)) :
     /\ (i[1] - 1) % geom[1] = u[1]
     /\ (i[2] - 1) % geom[2] = u[2]}

Rank(i) == (i[1] * 10 + i[2]) * 10 + i[3]

RECURSIVE InOrder(_)
InOrder(S) ==
  IF S = {} THEN <<>>
  ELSE LET m == CHOOSE i \in S : \A j \in S : Rank(i) <= Rank(j)
       IN <<m>> \o InOrder(S \ {m})

\* the arguments of the body for an index triple
BodyArgsAt(passed, i) == [d \in 1..Len(passed) |-> passed[d][i[d]]]

\* the body invocations of unit u, in its iteration order
UnitWork(passed, geom, u) ==
  LET order == InOrder(UnitIndices(passed, geom, u))
  IN [k \in 1..Len(order) |-> BodyArgsAt(passed, order[k])]

\* the record of body invocations: how often each argument tuple was used
NoHits == [a \in {} |-> 0]
Bump(hits, a) ==
  [x \in DOMAIN hits \cup {a} |->
     IF x \in DOMAIN hits
     THEN hits[x] + (IF x = a THEN 1 ELSE 0)
     ELSE 1]

LoopReturned == IF lp = NoLoop THEN TRUE ELSE lp[Len(lp)].returned

\* loop<POLICY_LIST>(ctx, segment..., body), up to the call of the strategy
LoopCall(deviceCode, c, segs) ==
  /\ LoopReturned
  /\ LET strat == LoopPolicy(deviceCode, c)
         rec == [deviceCode |-> deviceCode, ctx |-> c, segs |-> segs,
                 strategy |-> strat, passed |-> LoopArgs(segs),
                 cursor |-> [u \in LoopUnits(Geometry(strat, c)) |-> 0],
                 hits |-> NoHits, returned |-> FALSE]
     IN lp' = Append(IF Len(lp) = 2 THEN Tail(lp) ELSE lp, rec)
  /\ UNCHANGED <<team, mux, probe>>
  /\ UNCHANGED hostVars
  /\ UNCHANGED cudaVars
  /\ UNCHANGED teamVars
  /\ UNCHANGED setVars

\* one invocation of the body by unit u
LoopBody(u) ==
  /\ lp # NoLoop
  /\ LET n == Len(lp)
         rec == lp[n]
         geom == Geometry(rec.strategy, rec.ctx)
     IN /\ ~rec.returned
        /\ u \in LoopUnits(geom)
        /\ rec.cursor[u] < Len(UnitWork(rec.passed, geom, u))
        /\ lp' = [lp EXCEPT
                   ![n].cursor[u] = @ + 1,
                   ![n].hits =
                     Bump(@, UnitWork(rec.passed, geom, u)[rec.cursor[u] + 1])]
  /\ UNCHANGED <<team, mux, probe>>
  /\ UNCHANGED hostVars
  /\ UNCHANGED cudaVars
  /\ UNCHANGED teamVars
  /\ UNCHANGED setVars

\* every unit has finished its iterations: the loop is over
LoopReturn ==
  /\ lp # NoLoop
  /\ LET n == Len(lp)
         rec == lp[n]
         geom == Geometry(rec.strategy, rec.ctx)
     IN /\ ~rec.returned
        /\ \A u \in LoopUnits(geom) :
             rec.cursor[u] = Len(UnitWork(rec.passed, geom, u))
        /\ lp' = [lp EXCEPT ![n].returned = TRUE]
  /\ UNCHANGED <<team, mux, probe>>
  /\ UNCHANGED hostVars
  /\ UNCHANGED cudaVars
  /\ UNCHANGED teamVars
  /\ UNCHANGED setVars

----------------------------------------------------------------------------
(* A device team whose threads call loop over [0, n) and then go on to    *)
(* the next statement, with or without a teamSync in between               *)

\* the launch body starts on the nt threads of one team
LsLaunch(n, nt, sync) ==
  /\ ~ls.active
  /\ ls' = [active |-> TRUE, n |-> n, nt |-> nt, sync |-> sync,
            cursor |-> [t \in 0..(nt - 1) |-> t],
            tpc |-> [t \in 0..(nt - 1) |-> "loop"],
            done |-> {}, early |-> FALSE]
  /\ UNCHANGED <<queries, race, conc, omp>>
  /\ UNCHANGED extVars
  /\ UNCHANGED probe
  /\ UNCHANGED cudaVars
  /\ UNCHANGED teamVars
  /\ UNCHANGED setVars

\* thread t runs one iteration of the loop (thread-strided strategy)
LsIter(t) ==
  /\ ls.active
  /\ t \in DOMAIN ls.tpc
  /\ ls.tpc[t] = "loop"
  /\ ls.cursor[t] < ls.n
  /\ ls' = [ls EXCEPT !.done = @ \cup {ls.cursor[t]},
                      !.cursor[t] = @ + ls.nt]
  /\ UNCHANGED <<queries, race, conc, omp>>
  /\ UNCHANGED extVars
  /\ UNCHANGED probe
  /\ UNCHANGED cudaVars
  /\ UNCHANGED teamVars
  /\ UNCHANGED setVars

\* loop returns in thread t: nothing in loop waits for the other threads;
\* the thread goes on to teamSync, if the body calls it, or to the next
\* statement
LsLoopReturn(t) ==
  /\ ls.active
  /\ t \in DOMAIN ls.tpc
  /\ ls.tpc[t] = "loop"
  /\ ls.cursor[t] >= ls.n
  /\ LET to == IF ls.sync /\ teamSync_Barrier(TRUE) THEN "sync" ELSE "next"
     IN ls' = [ls EXCEPT
                 !.tpc[t] = to,
                 !.early = @ \/ (to = "next" /\ ls.done # 0..(ls.n - 1))]
  /\ UNCHANGED <<queries, race, conc, omp>>
  /\ UNCHANGED extVars
  /\ UNCHANGED probe
  /\ UNCHANGED cudaVars
  /\ UNCHANGED teamVars
  /\ UNCHANGED setVars

\* __syncthreads() lets thread t go once every thread has arrived
LsBarrierPass(t) ==
  /\ ls.active
  /\ t \in DOMAIN ls.tpc
  /\ ls.tpc[t] = "sync"
  /\ \A u \in DOMAIN ls.tpc : ls.tpc[u] # "loop"
  /\ ls' = [ls EXCEPT !.tpc[t] = "next",
                      !.early = @ \/ ls.done # 0..(ls.n - 1)]
  /\ UNCHANGED <<queries, race, conc, omp>>
  /\ UNCHANGED extVars
  /\ UNCHANGED probe
  /\ UNCHANGED cudaVars
  /\ UNCHANGED teamVars
  /\ UNCHANGED setVars

\* thread t runs the statement after the loop
LsNext(t) ==
  /\ ls.active
  /\ t \in DOMAIN ls.tpc
  /\ ls.tpc[t] = "next"
  /\ ls' = [ls EXCEPT !.tpc[t] = "end"]
  /\ UNCHANGED <<queries, race, conc, omp>>
  /\ UNCHANGED extVars
  /\ UNCHANGED probe
  /\ UNCHANGED cudaVars
  /\ UNCHANGED teamVars
  /\ UNCHANGED setVars

\* every thread has left the body
LsFinish ==
  /\ ls.active
  /\ \A t \in DOMAIN ls.tpc : ls.tpc[t] = "end"
  /\ ls' = NoLs
  /\ UNCHANGED <<queries, race, conc, omp>>
  /\ UNCHANGED extVars
  /\ UNCHANGED probe
  /\ UNCHANGED cudaVars
  /\ UNCHANGED teamVars
  /\ UNCHANGED setVars

----------------------------------------------------------------------------
(* Two host threads inside getGridDim at the same time, forall.hpp:95-110. *)
(* num_sm is a function-local static shared by all threads and accessed    *)
(* without a lock; each access of the int slot is one step.                *)

HostThreads == {1, 2}

\* cudaDeviceGetAttribute(&num_sm[device], ...) stores the reported count
QueryWrite_Add(cache, device, hw) == [cache EXCEPT ![device] = @ + hw]
QueryWrite(cache, device, hw) == [cache EXCEPT ![device] = hw]

\* both threads enter their first getGridDim call
RaceStart(len, blockDim) ==
  /\ ~race.active
  /\ queries = 0
  /\ BlockSizeOf(blockDim) > 0
  /\ race' = [active |-> TRUE, len |-> len, blockDim |-> blockDim,
              rpc |-> [h \in HostThreads |-> "test"],
              result |-> [h \in HostThreads |-> 0 - 1]]
  /\ UNCHANGED <<queries, ls, conc, omp>>
  /\ UNCHANGED extVars
  /\ UNCHANGED probe
  /\ UNCHANGED cudaVars
  /\ UNCHANGED teamVars
  /\ UNCHANGED setVars

\* line 102: if (num_sm[device] == 0)
RaceTest(h) ==
  /\ race.active
  /\ race.rpc[h] = "test"
  /\ race' = [race EXCEPT
                !.rpc[h] = IF num_sm[0] = 0 THEN "query" ELSE "size"]
  /\ UNCHANGED <<queries, ls, conc, omp>>
  /\ UNCHANGED extVars
  /\ UNCHANGED probe
  /\ UNCHANGED cudaVars
  /\ UNCHANGED teamVars
  /\ UNCHANGED setVars

\* line 103: the hardware query writes the slot
RaceQuery(h) ==
  /\ race.active
  /\ race.rpc[h] = "query"
  /\ num_sm' = QueryWrite(num_sm, 0, hw_num_sm)
  /\ queries' = Min(queries + 1, MaxQueries)
  /\ race' = [race EXCEPT !.rpc[h] = "size"]
  /\ UNCHANGED <<ls, conc, omp>>
  /\ UNCHANGED extVars
  /\ UNCHANGED probe
  /\ UNCHANGED <<MAX_THREADS_PER_SM, BlockSize, hw_num_sm, pc, call, stream,
                 lastError>>
  /\ UNCHANGED teamVars
  /\ UNCHANGED setVars

\* lines 105-109: the slot is read again and the grid size returned
RaceSize(h) ==
  /\ race.active
  /\ race.rpc[h] = "size"
  /\ race' = [race EXCEPT
                !.rpc[h] = "done",
                !.result[h] = getGridDim(race.len, race.blockDim, num_sm[0],
                                         MAX_THREADS_PER_SM)]
  /\ UNCHANGED <<queries, ls, conc, omp>>
  /\ UNCHANGED extVars
  /\ UNCHANGED probe
  /\ UNCHANGED cudaVars
  /\ UNCHANGED teamVars
  /\ UNCHANGED setVars

----------------------------------------------------------------------------
(* The function-local statics of kernel_impl, teams_core.hpp:451-466:     *)
(* apolloRegion and callback_pool start as nullptr and are shared by all   *)
(* host threads without a lock; each access of a pointer is one step.      *)

\* if (apolloRegion == nullptr)
RegionAbsent_Always(apolloRegion) == TRUE
RegionAbsent(apolloRegion) == apolloRegion = 0

\* the program starts: n host threads will call kernel_impl for the same
\* policy list
RegStart(n) ==
  /\ ~reg.active
  /\ reg' = [active |-> TRUE, apolloRegion |-> 0, callback_pool |-> 0,
             regions |-> 0, pools |-> 0, poolOf |-> <<>>,
             rpc |-> [h \in 1..n |-> "idle"],
             calls |-> [h \in 1..n |-> 0],
             used |-> [h \in 1..n |-> <<>>]]
  /\ UNCHANGED iset
  /\ UNCHANGED hostVars
  /\ UNCHANGED extVars
  /\ UNCHANGED probe
  /\ UNCHANGED cudaVars
  /\ UNCHANGED teamVars

\* host thread h enters kernel_impl
RegCall(h) ==
  /\ reg.active
  /\ h \in DOMAIN reg.rpc
  /\ reg.rpc[h] = "idle"
  /\ reg.calls[h] < MaxCalls
  /\ reg' = [reg EXCEPT !.rpc[h] = "test"]
  /\ UNCHANGED iset
  /\ UNCHANGED hostVars
  /\ UNCHANGED extVars
  /\ UNCHANGED probe
  /\ UNCHANGED cudaVars
  /\ UNCHANGED teamVars

\* line 457: if (apolloRegion == nullptr)
RegTest(h) ==
  /\ reg.active
  /\ h \in DOMAIN reg.rpc
  /\ reg.rpc[h] = "test"
  /\ reg' = [reg EXCEPT
               !.rpc[h] = IF RegionAbsent(reg.apolloRegion)
                          THEN "newpool" ELSE "begin"]
  /\ UNCHANGED iset
  /\ UNCHANGED hostVars
  /\ UNCHANGED extVars
  /\ UNCHANGED probe
  /\ UNCHANGED cudaVars
  /\ UNCHANGED teamVars

\* line 459: callback_pool = new ApolloCallbackDataPool(64, 64)
RegNewPool(h) ==
  /\ reg.active
  /\ h \in DOMAIN reg.rpc
  /\ reg.rpc[h] = "newpool"
  /\ reg' = [reg EXCEPT
               !.pools = @ + 1,
               !.callback_pool = reg.pools + 1,
               !.rpc[h] = "newregion"]
  /\ UNCHANGED iset
  /\ UNCHANGED hostVars
  /\ UNCHANGED extVars
  /\ UNCHANGED probe
  /\ UNCHANGED cudaVars
  /\ UNCHANGED teamVars

\* lines 460-465: apolloRegion = new Apollo::Region(..., callback_pool)
RegNewRegion(h) ==
  /\ reg.active
  /\ h \in DOMAIN reg.rpc
  /\ reg.rpc[h] = "newregion"
  /\ reg' = [reg EXCEPT
               !.regions = @ + 1,
               !.apolloRegion = reg.regions + 1,
               !.poolOf = Append(@, reg.callback_pool),
               !.rpc[h] = "begin"]
  /\ UNCHANGED iset
  /\ UNCHANGED hostVars
  /\ UNCHANGED extVars
  /\ UNCHANGED probe
  /\ UNCHANGED cudaVars
  /\ UNCHANGED teamVars

\* line 476: apolloRegion->begin(features), and the rest of the call
RegBegin(h) ==
  /\ reg.active
  /\ h \in DOMAIN reg.rpc
  /\ reg.rpc[h] = "begin"
  /\ reg' = [reg EXCEPT
               !.used[h] = Append(@, reg.apolloRegion),
               !.calls[h] = @ + 1,
               !.rpc[h] = "idle"]
  /\ UNCHANGED iset
  /\ UNCHANGED hostVars
  /\ UNCHANGED extVars
  /\ UNCHANGED probe
  /\ UNCHANGED cudaVars
  /\ UNCHANGED teamVars

----------------------------------------------------------------------------
(* Descriptors built by the caller and the launches made from them,       *)
(* teams_core.hpp:83-206                                                   *)

\* the constructor overload chosen by the number of arguments
TeamsOf(args) ==
  IF Len(args) = 0 THEN Teams0
  ELSE IF Len(args) = 1 THEN Teams1(args[1])
  ELSE IF Len(args) = 2 THEN Teams2(args[1], args[2])
  ELSE Teams3(args[1], args[2], args[3])

ThreadsOf3(args) ==
  IF Len(args) = 0 THEN Threads0
  ELSE IF Len(args) = 1 THEN Threads1(args[1])
  ELSE IF Len(args) = 2 THEN Threads2(args[1], args[2])
  ELSE Threads3(args[1], args[2], args[3])

\* Resources() = default: the members' default constructors
Resources0 == [teams |-> Teams0, threads |-> Threads0, lanes |-> Lanes0]

\* a write of the body to the teams member of the context of launch l; a
\* LaunchContext holds its own copy of the descriptor (Resources(base))
ContextWrite_Shared(c, l, v) ==
  [c EXCEPT !.desc.teams = v,
            !.ctxs = [k \in LaunchIds |-> [c.ctxs[k] EXCEPT !.teams = v]]]
ContextWrite(c, l, v) == [c EXCEPT !.ctxs[l].teams = v]

\* the caller builds a descriptor: Resources() or Resources(teams, threads)
BuildDescriptor(dflt, targs, hargs) ==
  /\ ~conc.active
  /\ LET d == IF dflt THEN Resources0
              ELSE Resources(TeamsOf(targs), ThreadsOf3(hargs))
     IN conc' = [active |-> TRUE, dflt |-> dflt,
                 targs |-> IF dflt THEN <<>> ELSE targs,
                 hargs |-> IF dflt THEN <<>> ELSE hargs,
                 desc |-> d, built |-> d,
                 lst |-> [l \in LaunchIds |-> "none"],
                 place |-> [l \in LaunchIds |-> "none"],
                 ctxs |-> [l \in LaunchIds |-> NoCtx],
                 touched |-> [l \in LaunchIds |-> FALSE]]
  /\ UNCHANGED <<queries, ls, race, omp>>
  /\ UNCHANGED extVars
  /\ UNCHANGED probe
  /\ UNCHANGED cudaVars
  /\ UNCHANGED teamVars
  /\ UNCHANGED setVars

\* launch l is called with the descriptor: LaunchContext(team_resources,
\* place) is built and handed to the strategy
ConcLaunch(l, place) ==
  /\ conc.active
  /\ conc.lst[l] = "none"
  /\ conc' = [conc EXCEPT !.lst[l] = "running",
                          !.place[l] = place,
                          !.ctxs[l] = LaunchContext(conc.desc, place)]
  /\ UNCHANGED <<queries, ls, race, omp>>
  /\ UNCHANGED extVars
  /\ UNCHANGED probe
  /\ UNCHANGED cudaVars
  /\ UNCHANGED teamVars
  /\ UNCHANGED setVars

\* the body of launch l changes a member of the context it was handed
ConcBodyWrite(l) ==
  /\ conc.active
  /\ conc.lst[l] = "running"
  /\ ~conc.touched[l]
  /\ conc' = [ContextWrite(conc, l, Teams1(7 + l)) EXCEPT !.touched[l] = TRUE]
  /\ UNCHANGED <<queries, ls, race, omp>>
  /\ UNCHANGED extVars
  /\ UNCHANGED probe
  /\ UNCHANGED cudaVars
  /\ UNCHANGED teamVars
  /\ UNCHANGED setVars

\* launch l returns; its context temporary is destroyed
ConcReturn(l) ==
  /\ conc.active
  /\ conc.lst[l] = "running"
  /\ conc' = [conc EXCEPT !.lst[l] = "returned", !.ctxs[l] = NoCtx]
  /\ UNCHANGED <<queries, ls, race, omp>>
  /\ UNCHANGED extVars
  /\ UNCHANGED probe
  /\ UNCHANGED cudaVars
  /\ UNCHANGED teamVars
  /\ UNCHANGED setVars

\* the descriptor goes out of scope after its launches
DropDescriptor ==
  /\ conc.active
  /\ \A l \in LaunchIds : conc.lst[l] = "returned"
  /\ conc' = NoConc
  /\ UNCHANGED <<queries, ls, race, omp>>
  /\ UNCHANGED extVars
  /\ UNCHANGED probe
  /\ UNCHANGED cudaVars
  /\ UNCHANGED teamVars
  /\ UNCHANGED setVars

----------------------------------------------------------------------------
(* OpenMP forall and reductions, forall_omp_any.hxx *)

\* for ( ii = begin ; ii < end ; ii += stride )
OmpIterations_Inclusive(begin, end, stride) ==
  {i \in begin..end : (i - begin) % stride = 0}
OmpIterations(begin, end, stride) ==
  {i \in begin..(end - 1) : (i - begin) % stride = 0}

\* the argument the body gets at iteration k: ii, or idx[k]
OmpArg(kind, k) == IF kind = "forall_idx" THEN IdxAt(k) ELSE k

\* sum_tmp[i] = 0;  min_tmp[i] = *min; loc_tmp[i] = *loc
TmpInit_Identity(kind, in, inloc) ==
  IF kind \in {"sum", "sum_stride"} THEN [val |-> 0, loc |-> inloc]
  ELSE IF kind = "minloc" THEN [val |-> 99, loc |-> inloc]
  ELSE [val |-> 0 - 99, loc |-> inloc]
TmpInit_LocZero(kind, in, inloc) ==
  IF kind \in {"sum", "sum_stride"} THEN [val |-> 0, loc |-> inloc]
  ELSE [val |-> in, loc |-> 0]
TmpInit(kind, in, inloc) ==
  IF kind \in {"sum", "sum_stride"} THEN [val |-> 0, loc |-> inloc]
  ELSE [val |-> in, loc |-> inloc]

\* the loop body applied to the partial result it is handed
Body(kind, i, tmp) ==
  IF kind \in {"sum", "sum_stride"} THEN [tmp EXCEPT !.val = @ + ValAt(i)]
  ELSE IF kind = "minloc"
       THEN IF ValAt(i) < tmp.val THEN [val |-> ValAt(i), loc |-> i] ELSE tmp
  ELSE IF kind = "maxloc"
       THEN IF ValAt(i) > tmp.val THEN [val |-> ValAt(i), loc |-> i] ELSE tmp
  ELSE tmp

\* the sequential loop over the partial results after the parallel loop
RECURSIVE SumCombine_Reset(_, _, _)
SumCombine_Reset(sum, tmp, n) ==
  IF n = 0 THEN 0 ELSE SumCombine_Reset(sum, tmp, n - 1) + tmp[n - 1].val
RECURSIVE SumCombine(_, _, _)
SumCombine(sum, tmp, n) ==
  IF n = 0 THEN sum ELSE SumCombine(sum, tmp, n - 1) + tmp[n - 1].val

RECURSIVE LocCombine(_, _, _, _)
LocCombine(kind, tmp, i, best) ==
  IF i >= Len(tmp) THEN best
  ELSE LET t == tmp[i + 1]
           better == IF kind = "minloc" THEN t.val < best.val
                     ELSE t.val > best.val
       IN LocCombine(kind, tmp, i + 1, IF better THEN t ELSE best)

Combine(kind, out, tmp, n) ==
  IF kind \in {"sum", "sum_stride"}
  THEN [val |-> SumCombine(out.val, tmp, n), loc |-> out.loc]
  ELSE IF kind \in {"minloc", "maxloc"}
       THEN LocCombine(kind, [i \in 1..n |-> tmp[i - 1]], 1, tmp[0])
  ELSE out

\* the slot a thread hands to the body: tmp[omp_get_thread_num()]
SlotOf_Zero(t) == 0
SlotOf(t) == t

\* the call up to the parallel loop: the partial results are initialised
OmpCall(kind, begin, end, stride, nthreads, in, inloc) ==
  /\ ~omp.active
  /\ LET its == OmpIterations(begin, end, stride)
     IN omp' = [active |-> TRUE, kind |-> kind, begin |-> begin, end |-> end,
                stride |-> stride, nthreads |-> nthreads,
                in |-> in, inloc |-> inloc,
                out |-> [val |-> in, loc |-> inloc],
                tmp |-> [t \in 0..(nthreads - 1) |->
                           TmpInit(kind, in, inloc)],
                pending |-> its,
                visits |-> [k \in its |-> <<>>],
                owner |-> [t \in 0..(nthreads - 1) |-> {}],
                opc |-> "parallel"]
  /\ UNCHANGED <<queries, ls, race, conc>>
  /\ UNCHANGED extVars
  /\ UNCHANGED probe
  /\ UNCHANGED cudaVars
  /\ UNCHANGED teamVars
  /\ UNCHANGED setVars

\* #pragma omp parallel for: thread t runs iteration k
OmpIter(k, t) ==
  /\ omp.active
  /\ omp.opc = "parallel"
  /\ k \in omp.pending
  /\ t \in DOMAIN omp.tmp
  /\ omp' = [omp EXCEPT
               !.pending = @ \ {k},
               !.visits[k] = Append(@, OmpArg(omp.kind, k)),
               !.owner[SlotOf(t)] = @ \cup {t},
               !.tmp[SlotOf(t)] = Body(omp.kind, OmpArg(omp.kind, k), @)]
  /\ UNCHANGED <<queries, ls, race, conc>>
  /\ UNCHANGED extVars
  /\ UNCHANGED probe
  /\ UNCHANGED cudaVars
  /\ UNCHANGED teamVars
  /\ UNCHANGED setVars

\* the barrier that ends the parallel loop, the combining loop, return
OmpJoin ==
  /\ omp.active
  /\ omp.opc = "parallel"
  /\ omp.pending = {}
  /\ omp' = [omp EXCEPT
               !.out = Combine(omp.kind, @, omp.tmp, omp.nthreads),
               !.opc = "returned"]
  /\ UNCHANGED <<queries, ls, race, conc>>
  /\ UNCHANGED extVars
  /\ UNCHANGED probe
  /\ UNCHANGED cudaVars
  /\ UNCHANGED teamVars
  /\ UNCHANGED setVars

\* the iterations the switch on seg.m_type runs for a segment: a range
\* [begin, end), the positions of an index array of length end - begin,
\* nothing in the default case
SegmentIterations_StrideToo(seg) ==
  IF seg.type \in {"_Range_", "_RangeStride_"}
  THEN seg.begin..(seg.end - 1)
  ELSE IF seg.type = "_Unstructured_" THEN 0..(seg.end - seg.begin - 1)
  ELSE {}
SegmentIterations(seg) ==
  IF seg.type = "_Range_" THEN seg.begin..(seg.end - 1)
  ELSE IF seg.type = "_Unstructured_" THEN 0..(seg.end - seg.begin - 1)
  ELSE {}

\* the argument of the body: ii of a range, idx[k] of an index array
SegmentArg(seg, k) == IF seg.type = "_Unstructured_" THEN IdxAt(k) ELSE k

\* forall over a HybridISet: num_seg = is.getNumSegments()
HybridCall(segs, nthreads) ==
  /\ ~omp.active
  /\ omp' = [active |-> TRUE, kind |-> "hybrid", segs |-> segs,
             nthreads |-> nthreads,
             pending |-> [isi \in 1..Len(segs) |->
                            SegmentIterations(segs[isi])],
             visits |-> [isi \in 1..Len(segs) |->
                           [k \in SegmentIterations(segs[isi]) |-> <<>>]],
             opc |-> "segments"]
  /\ UNCHANGED <<queries, ls, race, conc>>
  /\ UNCHANGED extVars
  /\ UNCHANGED probe
  /\ UNCHANGED cudaVars
  /\ UNCHANGED teamVars
  /\ UNCHANGED setVars

\* #pragma omp parallel for schedule(dynamic, 1) over the segments: one
\* iteration of the forall of segment isi
HybridIter(isi, k) ==
  /\ omp.active
  /\ omp.opc = "segments"
  /\ isi \in DOMAIN omp.pending
  /\ k \in omp.pending[isi]
  /\ omp' = [omp EXCEPT
               !.pending[isi] = @ \ {k},
               !.visits[isi][k] = Append(@, SegmentArg(omp.segs[isi], k))]
  /\ UNCHANGED <<queries, ls, race, conc>>
  /\ UNCHANGED extVars
  /\ UNCHANGED probe
  /\ UNCHANGED cudaVars
  /\ UNCHANGED teamVars
  /\ UNCHANGED setVars

\* the barrier that ends the loop over the segments, return
HybridJoin ==
  /\ omp.active
  /\ omp.opc = "segments"
  /\ \A isi \in DOMAIN omp.pending : omp.pending[isi] = {}
  /\ omp' = [omp EXCEPT !.opc = "returned"]
  /\ UNCHANGED <<queries, ls, race, conc>>
  /\ UNCHANGED extVars
  /\ UNCHANGED probe
  /\ UNCHANGED cudaVars
  /\ UNCHANGED teamVars
  /\ UNCHANGED setVars

\* the caller goes on to its next call
OmpNext ==
  /\ omp.active
  /\ omp.opc = "returned"
  /\ omp' = NoOmp
  /\ UNCHANGED <<queries, ls, race, conc>>
  /\ UNCHANGED extVars
  /\ UNCHANGED probe
  /\ UNCHANGED cudaVars
  /\ UNCHANGED teamVars
  /\ UNCHANGED setVars

----------------------------------------------------------------------------
(* forall and forall_Icount over an index set with                        *)
(* ExecPolicy<seq_segit, cuda_exec<BlockSize, Async>>, forall.hpp:305-365  *)

\* the policy of a segment call: cuda_exec<BlockSize, true>()
SegmentAsync_Inherit(async) == async
SegmentAsync(async) == TRUE

\* iset.getStartingIcount(isi), as handed to CallForallIcount
SegmentIcount_Index(icounts, isi) == isi
SegmentIcount(icounts, isi) == icounts[isi + 1]

\* the starting counts of an index set: the running totals of the segment
\* lengths, moved by shift
RECURSIVE TotalLen(_, _)
TotalLen(lens, n) == IF n = 0 THEN 0 ELSE TotalLen(lens, n - 1) + lens[n]
StartingIcounts(lens, shift) ==
  [n \in 1..Len(lens) |-> TotalLen(lens, n - 1) + shift]

\* num_seg = iset.getNumSegments(); isi = 0
ISetBegin(kind, async, lens, shift) ==
  /\ ~iset.active
  /\ pc = "idle"
  /\ call.id = 0
  /\ iset' = [active |-> TRUE, kind |-> kind, async |-> async,
              lens |-> lens, icounts |-> StartingIcounts(lens, shift),
              isi |-> 0, ipc |-> "segments", syncs |-> 0]
  /\ UNCHANGED reg
  /\ UNCHANGED hostVars
  /\ UNCHANGED extVars
  /\ UNCHANGED probe
  /\ UNCHANGED cudaVars
  /\ UNCHANGED teamVars

\* iset.segmentCall(isi, ..., cuda_exec<BlockSize, true>(), loop_body):
\* the forall (forall_Icount) of the segment starts
ISetSegmentCall ==
  /\ iset.active
  /\ iset.ipc = "segments"
  /\ iset.isi < Len(iset.lens)
  /\ call.id = iset.isi
  /\ ForallBegin(iset.kind, iset.lens[iset.isi + 1], BlockSize,
                 SegmentAsync(iset.async),
                 SegmentIcount(iset.icounts, iset.isi))

\* the segment call has returned: ++isi
ISetAdvance ==
  /\ iset.active
  /\ iset.ipc = "segments"
  /\ iset.isi < Len(iset.lens)
  /\ pc = "idle"
  /\ call.id = iset.isi + 1
  /\ iset' = [iset EXCEPT !.isi = @ + 1]
  /\ UNCHANGED reg
  /\ UNCHANGED hostVars
  /\ UNCHANGED extVars
  /\ UNCHANGED probe
  /\ UNCHANGED cudaVars
  /\ UNCHANGED teamVars

\* the loop over the segments is over: if (!Async) cuda::synchronize()
ISetLoopEnd ==
  /\ iset.active
  /\ iset.ipc = "segments"
  /\ iset.isi = Len(iset.lens)
  /\ iset' = [iset EXCEPT !.ipc = IF iset.async THEN "returned" ELSE "sync"]
  /\ UNCHANGED reg
  /\ UNCHANGED hostVars
  /\ UNCHANGED extVars
  /\ UNCHANGED probe
  /\ UNCHANGED cudaVars
  /\ UNCHANGED teamVars

\* the blocked cuda::synchronize() returns once the device is idle
ISetSynchronize ==
  /\ iset.active
  /\ iset.ipc = "sync"
  /\ stream = <<>>
  /\ iset' = [iset EXCEPT !.ipc = "returned", !.syncs = @ + 1]
  /\ UNCHANGED reg
  /\ UNCHANGED hostVars
  /\ UNCHANGED extVars
  /\ UNCHANGED probe
  /\ UNCHANGED cudaVars
  /\ UNCHANGED teamVars

CudaIdle ==
  /\ num_sm = [d \in 0..7 |-> 0]
  /\ pc = "idle"
  /\ call = NoCall
  /\ stream = <<>>
  /\ lastError = FALSE

\* A run uses one cuda_exec<BlockSize, Async> block size; Async is chosen
\* call by call.
Init ==
  /\ MAX_THREADS_PER_SM \in ThreadLimits
  /\ BlockSize \in BlockSizes
  /\ hw_num_sm \in 0..MaxSM
  /\ CudaIdle
  /\ probe = NoProbe
  /\ TeamIdle
  /\ ExtIdle

Next ==
  \/ \E kind \in {"forall", "forall_Icount"}, len \in Lens,
        async \in BOOLEAN, icount \in Icounts :
       ForallBegin(kind, len, BlockSize, async, icount)
  \/ IssueKernel
  \/ PeekAtLastError
  \/ PostLaunch
  \/ Synchronize
  \/ \E i \in 1..Len(stream) : \E u \in DOMAIN stream[i].ii : UnitStep(i, u)
  \/ \E i \in 1..Len(stream) : KernelComplete(i)

Spec == Init /\ [][Next]_vars

\* the device keeps running the units of its kernels, and the host thread
\* keeps running the forall call it is in
DeviceStep ==
  \/ \E i \in 1..Len(stream) : \E u \in DOMAIN stream[i].ii : UnitStep(i, u)
  \/ \E i \in 1..Len(stream) : KernelComplete(i)
HostStep == IssueKernel \/ PeekAtLastError \/ PostLaunch \/ Synchronize
\* a host thread that makes two forall calls
NextFair ==
  \/ /\ call.id < 2
     /\ \E kind \in {"forall", "forall_Icount"}, len \in Lens,
           async \in BOOLEAN, icount \in Icounts :
          ForallBegin(kind, len, BlockSize, async, icount)
  \/ HostStep
  \/ DeviceStep
SpecFair ==
  Init /\ [][NextFair]_vars /\ WF_vars(DeviceStep) /\ WF_vars(HostStep)

\* direct getGridDim calls, over builds and devices up to the sizes of a
\* real GPU
InitGrid ==
  /\ MAX_THREADS_PER_SM \in GridThreadLimits
  /\ BlockSize = 0
  /\ hw_num_sm \in GridNumSMs
  /\ CudaIdle
  /\ probe = NoProbe
  /\ TeamIdle
  /\ ExtIdle

NextGrid ==
  \E len \in GridLens, blockDim \in GridShapes : GetGridDimCall(len, blockDim)

SpecGrid == InitGrid /\ [][NextGrid]_vars

\* launch calls of one host thread
InitLaunch ==
  /\ MAX_THREADS_PER_SM = 2048
  /\ BlockSize = 0
  /\ hw_num_sm = 1
  /\ CudaIdle
  /\ probe = NoProbe
  /\ TeamIdle
  /\ ExtIdle

NextLaunch ==
  \/ \E place \in Places, i, j, k \in DimVals, x, y \in DimVals :
       LaunchCall(place, Resources(Teams3(i, j, k), Threads2(x, y)))
  \/ \E place \in Places :
       LaunchCall(place, Resources(Teams3(2, 3, 4), Threads1(8)))
  \/ LaunchExec
  \/ LaunchReturn

SpecLaunch == InitLaunch /\ [][NextLaunch]_vars

\* one forall or forall_Icount over an index set
InitISet ==
  /\ MAX_THREADS_PER_SM \in ThreadLimits
  /\ BlockSize \in 1..MaxBlock
  /\ hw_num_sm \in 1..MaxSM
  /\ CudaIdle
  /\ probe = NoProbe
  /\ TeamIdle
  /\ ExtIdle

NextISet ==
  \/ /\ ~iset.active
     /\ \E kind \in {"forall", "forall_Icount"}, async \in BOOLEAN,
           lens \in IndexSets, shift \in IcountShifts :
          ISetBegin(kind, async, lens, IF kind = "forall" THEN 0 ELSE shift)
  \/ ISetSegmentCall
  \/ ISetAdvance
  \/ ISetLoopEnd
  \/ ISetSynchronize
  \/ IssueKernel
  \/ PeekAtLastError
  \/ PostLaunch
  \/ DeviceStep

SpecISet == InitISet /\ [][NextISet]_vars

\* kernel_impl called by one host thread or by two at the same time
NextRegion ==
  \/ \E n \in HostThreads : RegStart(n)
  \/ \E h \in HostThreads : RegCall(h)
  \/ \E h \in HostThreads : RegTest(h)
  \/ \E h \in HostThreads : RegNewPool(h)
  \/ \E h \in HostThreads : RegNewRegion(h)
  \/ \E h \in HostThreads : RegBegin(h)

SpecRegion == InitLaunch /\ [][NextRegion]_vars

\* OpenMP calls of one host thread, for every team size and every
\* assignment of iterations to threads
NextOmp ==
  \/ /\ ~omp.active
     /\ \E kind \in OmpKinds, begin \in OmpBegins, end \in OmpEnds,
           nthreads \in OmpThreads, in \in Incoming, inloc \in IncomingLocs :
          OmpCall(kind,
                  IF kind = "forall_idx" THEN 0 ELSE begin,
                  IF kind = "forall_idx" THEN end - begin ELSE end,
                  IF kind = "sum_stride" THEN 2 ELSE 1,
                  nthreads, in,
                  IF kind \in {"minloc", "maxloc"} THEN inloc ELSE 0 - 1)
  \/ \E k \in 0..MaxEnd, t \in 0..(MaxThreads - 1) : OmpIter(k, t)
  \/ /\ ~omp.active
     /\ \E segs \in HybridISets, nthreads \in OmpThreads :
          HybridCall(segs, nthreads)
  \/ \E isi \in 1..2, k \in 0..MaxSeg : HybridIter(isi, k)
  \/ HybridJoin
  \/ OmpJoin
  \/ OmpNext

SpecOmp == InitLaunch /\ [][NextOmp]_vars

\* descriptors from every constructor overload, each used by two launches
NextDesc ==
  \/ /\ ~conc.active
     /\ \E dflt \in BOOLEAN, targs \in ArgLists(3), hargs \in ArgLists(2) :
          BuildDescriptor(dflt, targs, hargs)
  \/ \E l \in LaunchIds, place \in LoopPlaces : ConcLaunch(l, place)
  \/ \E l \in LaunchIds : ConcBodyWrite(l)
  \/ \E l \in LaunchIds : ConcReturn(l)
  \/ DropDescriptor

SpecDesc == InitLaunch /\ [][NextDesc]_vars

\* two host threads racing through their first getGridDim call
NextRace ==
  \/ \E len \in GridLens, blockDim \in GridShapes : RaceStart(len, blockDim)
  \/ \E h \in HostThreads : RaceTest(h)
  \/ \E h \in HostThreads : RaceQuery(h)
  \/ \E h \in HostThreads : RaceSize(h)

SpecRace == InitGrid /\ [][NextRace]_vars

\* device teams running a loop and the statement after it
NextLoopSync ==
  \/ \E n \in 1..MaxIter, nt \in TeamSizes, sync \in BOOLEAN :
       LsLaunch(n, nt, sync)
  \/ \E t \in 0..2 : LsIter(t)
  \/ \E t \in 0..2 : LsLoopReturn(t)
  \/ \E t \in 0..2 : LsBarrierPass(t)
  \/ \E t \in 0..2 : LsNext(t)
  \/ LsFinish

SpecLoopSync == InitLaunch /\ [][NextLoopSync]_vars

\* loop calls under a context of two teams of two threads
NextLoop ==
  \/ \E deviceCode \in BOOLEAN, place \in LoopPlaces, segs \in SegLists :
       LoopCall(deviceCode,
                LaunchContext(Resources(Teams1(2), Threads1(2)), place),
                segs)
  \/ \E u \in AllThreads : LoopBody(u)
  \/ LoopReturn

SpecLoop == InitLaunch /\ [][NextLoop]_vars

\* kernel_impl calls of one host thread
NextMux ==
  \/ \E n \in 1..MaxPolicies :
       \E kinds \in [1..n -> VariantKinds], policy \in (0 - 1)..(n + 1) :
         KernelImplCall(policy, kinds)
  \/ Generate
  \/ PreLaunch
  \/ RunVariant
  \/ PostLaunchHook
  \/ GenerateReturn
  \/ DeviceKernelFinish
  \/ RegionCollect
  \/ KernelImplNext

SpecMux == InitLaunch /\ [][NextMux]_vars

\* launches whose body calls teamSync
NextTeam ==
  \/ \E place \in {"HOST", "DEVICE"}, shape \in TeamShapes,
        n \in 0..MaxSyncs, odd \in AllThreads \cup {<<9, 9>>},
        m \in 0..MaxSyncs :
       /\ (odd = <<9, 9>> => m = n)
       /\ (odd # <<9, 9>> => m # n /\ odd[1] < shape[1] /\ odd[2] < shape[2])
       /\ TeamLaunch(place, shape, n, odd, m)
  \/ \E t \in AllThreads : TeamSyncCall(t)
  \/ \E t \in AllThreads : BarrierPass(t)
  \/ \E t \in AllThreads : ThreadExit(t)
  \/ TeamComplete
  \/ TeamFinish

SpecTeam == InitLaunch /\ [][NextTeam]_vars

\* the device and the host schedule every thread that can take a step
TeamFairness ==
  /\ \A t \in AllThreads :
       /\ WF_vars(TeamSyncCall(t))
       /\ WF_vars(BarrierPass(t))
       /\ WF_vars(ThreadExit(t))
  /\ WF_vars(TeamComplete)

SpecTeamFair == InitLaunch /\ [][NextTeam]_vars /\ TeamFairness


----------------------------------------------------------------------------
(* Properties of the CUDA forall path (checked under Spec) *)

Kernels == {stream[i] : i \in 1..Len(stream)}
Positions(k) == 0..(k.len - 1)
KernelOf(id) == {k \in Kernels : k.id = id}
Returned == pc = "idle" /\ call.id > 0
Launched == LaunchGuard(call.len, call.bs)

\* C1: the G*B units of a kernel together invoke the body on every
\* position of [0, N) exactly once, under every interleaving: no position
\* is ever visited twice, and when all units have left their loops no
\* position is unvisited.
C1_EachPositionOnce ==
  \A k \in Kernels : \A p \in Positions(k) :
    /\ Len(k.visits[p]) <= 1
    /\ KernelDone(k) => Len(k.visits[p]) = 1
    /\ \A n \in 1..Len(k.visits[p]) :
         k.visits[p][n][Len(k.visits[p][n])] = IdxAt(p)

\* a kernel whose grid getGridDim truncated, finished by strided passes
C1_Witness ==
  \E k \in Kernels :
    /\ KernelDone(k)
    /\ k.len >= 3
    /\ k.gridDim * k.blockDim < k.len
    /\ k.gridDim < (k.len + k.blockDim - 1) \div k.blockDim

\* C3 (as claimed): for N > 0 and a block size > 0, on a device with at
\* least one compute unit, the grid size forall obtains is at least 1 and
\* at most the number of concurrent groups.
C3_GridAtLeastOne ==
  (call.gridCalls = 1 /\ hw_num_sm >= 1) =>
    /\ call.gridSize >= 1
    /\ call.gridSize <= hw_num_sm * (MAX_THREADS_PER_SM \div call.bs)

\* C4: with length <= 0 or block size 0 the call returns at once: no grid
\* size computed, no kernel issued, no error check or synchronize, no body
\* invocation, no error.
C4_DegenerateIsNoOp ==
  (call.id > 0 /\ (call.len <= 0 \/ call.bs = 0)) =>
    /\ pc = "idle"
    /\ call.ret = "nokernel"
    /\ call.gridCalls = 0 /\ call.launches = 0
    /\ call.peeks = 0 /\ call.syncs = 0
    /\ call.invoked = 0 /\ ~call.failed
    /\ KernelOf(call.id) = {}

C4_Witness ==
  /\ Returned
  /\ call.len = 0 /\ call.bs > 0
  /\ stream # <<>>

\* C5: a forall with Async = false that issued its kernel has, when it
\* returns, synchronized once, its kernel has completed and the body has
\* been invoked for every position.
C5_SyncReturnsAfterCompletion ==
  (Returned /\ Launched /\ ~call.async) =>
    /\ call.syncs = 1
    /\ call.ret = "complete"
    /\ KernelOf(call.id) = {}
    /\ call.invoked = call.len

C5_Witness ==
  /\ Returned /\ Launched /\ ~call.async
  /\ call.len >= 2

\* C6: all kernels are placed on stream 0 and run in issue order: a kernel
\* behind another one in the stream has not invoked its body.
C6_IssueOrder ==
  \A i \in 1..Len(stream) :
    /\ stream[i].stream = 0
    /\ \A j \in 1..(i - 1) : stream[j].id < stream[i].id
    /\ i > 1 => \A p \in Positions(stream[i]) : stream[i].visits[p] = <<>>

\* two asynchronous calls have returned, A is running, B has not started
C6_Witness ==
  /\ Returned /\ call.async /\ call.ret = "pending"
  /\ Len(stream) = 2
  /\ \E p \in Positions(stream[1]) : stream[1].visits[p] # <<>>
  /\ ~KernelDone(stream[1])

\* C7: the error check follows the issue and precedes the wait; a failed
\* issue ends in the fatal state: one launch, no retry, no body
\* invocation, no synchronize, no normal return.
C7_IssueFailureIsFatal ==
  /\ call.failed =>
       /\ pc \in {"peek", "fatal"}
       /\ call.launches = 1 /\ call.syncs = 0
       /\ call.invoked = 0 /\ call.ret = "none"
       /\ KernelOf(call.id) = {}
  /\ pc = "fatal" => call.failed /\ call.peeks = 1
  /\ (pc = "sync" \/ call.syncs > 0) => call.peeks = 1 /\ ~call.failed
  /\ call.peeks <= call.launches

C7_Witness ==
  /\ pc = "fatal"
  /\ call.failed
  /\ call.gridSize >= 1

\* C8: a call with length > 0 and block size > 0 issues exactly one kernel
\* launch, however many strided passes the units need.
C8_OneLaunchPerCall ==
  /\ call.launches <= 1
  /\ Cardinality(KernelOf(call.id)) <= 1
  /\ (Launched /\ pc # "issue") => call.launches = 1
  /\ ~Launched => call.launches = 0

C8_Witness ==
  /\ Returned /\ Launched
  /\ call.ret = "complete"
  /\ call.len >= 2 * call.gridSize * call.bs

\* C9: forall_Icount invokes the body, for every position i, exactly once
\* with (icount + i, iterable[i]); the first argument is the offset
\* position, not the index value.
C9_IcountArgs ==
  \A k \in Kernels : k.kind = "forall_Icount" =>
    \A p \in Positions(k) :
      /\ Len(k.visits[p]) <= 1
      /\ KernelDone(k) => k.visits[p] = << <<k.icount + p, IdxAt(p)>> >>
      /\ \A n \in 1..Len(k.visits[p]) :
           /\ k.visits[p][n] = <<k.icount + p, IdxAt(p)>>
           /\ k.visits[p][n][1] # IdxAt(p)

C9_Witness ==
  \E k \in Kernels :
    /\ k.kind = "forall_Icount"
    /\ KernelDone(k)
    /\ k.len >= 3
    /\ k.icount > 0


----------------------------------------------------------------------------
(* Properties of getGridDim (checked under SpecGrid) *)

CeilDiv(a, b) == CHOOSE q \in 0..a : q * b >= a /\ (q - 1) * b < a
FloorDiv(a, b) == CHOOSE q \in 0..a : q * b <= a /\ (q + 1) * b > a

\* C2: getGridDim(len, blockDim) = min(ceil(len / blockSize),
\* numSM * floor(MAX_THREADS_PER_SM / blockSize)), blockSize being the
\* product of the three block dimensions and numSM the device's
\* compute-unit count.
C2_GridFormula ==
  probe.valid =>
    LET blockSize == probe.blockDim[1] * probe.blockDim[2] * probe.blockDim[3]
    IN  probe.result =
          Min(CeilDiv(probe.len, blockSize),
              hw_num_sm * FloorDiv(MAX_THREADS_PER_SM, blockSize))

\* 1000 elements, block (256,1,1), 20 compute units, limit 2048: 4 groups
C2_Witness ==
  /\ probe.valid
  /\ probe.len = 1000 /\ probe.blockDim = <<256, 1, 1>>
  /\ hw_num_sm = 20 /\ MAX_THREADS_PER_SM = 2048
  /\ probe.result = 4

----------------------------------------------------------------------------
(* Properties of launch (checked under SpecLaunch) *)

\* C11: launch with a place that is neither HOST nor DEVICE raises at
\* once: no context is built or handed to a strategy, the body does not
\* run, and host execution is not used as a fallback.
C11_UnknownPlaceThrows ==
  (lplace \notin {"HOST", "DEVICE", "none"}) =>
    /\ lpc \in {"thrown", "idle"}
    /\ ctx = NoCtx
    /\ strategy = NoStrategy
    /\ bodyPlaces = {}
    /\ bodyRes = NoRes

C11_Witness ==
  /\ lpc = "thrown"
  /\ lplace = "NUM_PLACES"
  /\ lres = Resources(Teams3(2, 3, 4), Threads1(8))

\* C12: the teams, threads and lanes the strategy and the body read from
\* the context equal, component by component, those of the descriptor
\* passed to launch.
C12_ResourcesRoundTrip ==
  /\ lpc \in {"exec", "ran"} =>
       /\ \A d \in 1..3 : /\ ctx.teams[d] = lres.teams[d]
                           /\ ctx.threads[d] = lres.threads[d]
       /\ ctx.lanes = lres.lanes
  /\ lpc = "ran" =>
       /\ \A d \in 1..3 : /\ bodyRes.teams[d] = lres.teams[d]
                           /\ bodyRes.threads[d] = lres.threads[d]
       /\ bodyRes.lanes = lres.lanes

\* Teams(2,3,4), Threads(8,1,1) read back inside the body
C12_Witness ==
  /\ lpc = "ran"
  /\ bodyRes.teams = <<2, 3, 4>>
  /\ bodyRes.threads = <<8, 1, 1>>
  /\ bodyRes.lanes = 0

\* C10: launch with place HOST runs only the host strategy, with place
\* DEVICE only the device strategy, once per call, and the context of the
\* strategy and of the body has exec_place = place during the whole launch.
C10_LaunchDispatch ==
  (lpc \in {"exec", "ran"} /\ lplace \in {"HOST", "DEVICE"}) =>
    /\ ctx.exec_place = lplace
    /\ strategy["host"] = (IF lplace = "HOST" THEN 1 ELSE 0)
    /\ strategy["device"] = (IF lplace = "DEVICE" THEN 1 ELSE 0)
    /\ \A q \in bodyPlaces : q = lplace
    /\ lpc = "ran" => bodyPlaces = {lplace}

C10_Witness ==
  /\ lpc = "ran"
  /\ lplace = "DEVICE"
  /\ bodyPlaces = {"DEVICE"}
  /\ strategy["device"] = 1


----------------------------------------------------------------------------
(* Properties of teamSync (checked under SpecTeam and SpecTeamFair) *)

OnHost == team.active /\ team.ctx.exec_place = "HOST"
OnDevice == team.active /\ team.ctx.exec_place = "DEVICE"
TeamThreads == IF team.active THEN DOMAIN team.tpc ELSE {}

\* the threads of every team call teamSync the same number of times
UniformPlan ==
  \A t, u \in TeamThreads : SameTeam(t, u) => team.plan[t] = team.plan[u]

\* C13: on host execution a teamSync call changes nothing but the count
\* of calls made -- not the context, not the position of any thread --
\* and no thread ever waits in it.
C13_HostTeamSyncNoOp ==
  [][(OnHost /\ team'.active /\ team'.calls # team.calls) =>
       /\ team'.ctx = team.ctx
       /\ team'.tpc = team.tpc
       /\ team'.plan = team.plan
       /\ team'.complete = team.complete
       /\ \A t \in TeamThreads : team'.tpc[t] # "wait"
       /\ <<lres, ctx, bodyRes, probe, mux, lp>>' =
            <<lres, ctx, bodyRes, probe, mux, lp>>]_vars

\* several host threads have called teamSync twice, out of step
C13_Witness ==
  /\ OnHost
  /\ \E t, u \in TeamThreads :
       /\ SameTeam(t, u) /\ t # u
       /\ team.calls[t] = 2 /\ team.calls[u] = 0
       /\ team.tpc[t] = "run"
       /\ team.plan[u] = 2

\* C14: on device execution a thread is past its k-th teamSync only if
\* every thread of its team has made its k-th teamSync call; threads of
\* other teams are not waited for.
C14_DeviceBarrier ==
  OnDevice =>
    \A t \in TeamThreads :
      (team.tpc[t] # "wait" /\ team.calls[t] >= 1) =>
        \A u \in TeamThreads : SameTeam(t, u) => team.calls[u] >= team.calls[t]

\* a team is past its second barrier while another team has not reached
\* its first one
C14_Witness ==
  /\ OnDevice
  /\ \E t, u, v \in TeamThreads :
       /\ SameTeam(t, u) /\ t # u /\ ~SameTeam(t, v)
       /\ team.calls[t] = 2 /\ team.tpc[t] = "run"
       /\ team.calls[u] = 2
       /\ team.calls[v] = 0 /\ team.plan[v] >= 1

Stuck ==
  /\ OnDevice
  /\ ~team.complete
  /\ \E t \in TeamThreads : team.tpc[t] = "wait"

----------------------------------------------------------------------------
(* Properties of the policy multiplexer (checked under SpecMux) *)

InRange == mux.active /\ 0 <= mux.policy /\ mux.policy < mux.num_policies
MuxReturned == mux.active /\ mux.mpc = "return"
Executed == {mux.log[n][2] : n \in {j \in 1..Len(mux.log) : mux.log[j][1] = "kernel"}}
HookEvents == {n \in 1..Len(mux.log) : mux.log[n][1] # "kernel"}
Expected(k) == << <<"pre", k>>, <<"kernel", k>>, <<"post", k>> >>

\* C16: with selector k in [0, numPolicies) exactly the variant at index
\* k is executed, once; with k outside the range no variant is executed
\* and the call returns normally.
C16_SelectedVariantOnly ==
  mux.active =>
    /\ Executed \subseteq (IF InRange THEN {mux.policy} ELSE {})
    /\ Cardinality({n \in 1..Len(mux.log) : mux.log[n][1] = "kernel"}) <= 1
    /\ MuxReturned => Executed = (IF InRange THEN {mux.policy} ELSE {})
    /\ mux.mpc \in {"generate", "matched", "return"}
    /\ mux.mpc = "matched" => InRange

\* an out-of-range selector has gone through all variants and returned
C16_Witness ==
  /\ MuxReturned
  /\ mux.policy = mux.num_policies + 1
  /\ mux.num_policies = 3
  /\ mux.idx = 3
  /\ Executed = {}

\* C17: for the matched variant the steps run in the order pre-launch
\* hook, kernel, post-launch hook, each once; no hook runs for a variant
\* whose index differs from the selector.
C17_HookOrder ==
  mux.active =>
    /\ \A n \in HookEvents : mux.log[n][2] = mux.policy
    /\ Len(mux.log) <= 3
    /\ \A n \in 1..Len(mux.log) : mux.log[n] = Expected(mux.policy)[n]
    /\ (MuxReturned /\ InRange) => mux.log = Expected(mux.policy)
    /\ (MuxReturned /\ ~InRange) => mux.log = <<>>

C17_Witness ==
  /\ MuxReturned
  /\ mux.policy = 1
  /\ mux.num_policies = 3
  /\ mux.log = Expected(1)

AsyncMatched == InRange /\ mux.kinds[mux.policy + 1] = "CudaKernelAsync"

\* C18: for a variant whose first statement is CudaKernelAsync the region
\* context is not closed when the post-launch hook runs: it is kept
\* pending and closed only once the kernel has finished on the device.
C18_AsyncRegionClose ==
  AsyncMatched =>
    /\ mux.rctx = "closed" => mux.dev = "finished"
    /\ mux.dev = "running" => mux.rctx \in {"begun", "pending"}
    /\ (Len(mux.log) = 3 /\ mux.dev = "running") => mux.rctx = "pending"
    /\ Len(mux.log) >= 1 => mux.callback

\* the post-launch hook has run and the kernel is still running
C18_Witness ==
  /\ AsyncMatched
  /\ MuxReturned
  /\ mux.dev = "running"
  /\ mux.rctx = "pending"


----------------------------------------------------------------------------
(* Properties of loop (checked under SpecLoop) *)

LoopCalls == 1..Len(lp)
\* the number of body invocations recorded in hits
RECURSIVE SumOver(_, _)
SumOver(hits, S) ==
  IF S = {} THEN 0
  ELSE LET a == CHOOSE x \in S : TRUE
       IN hits[a] + SumOver(hits, S \ {a})
Total(hits) == SumOver(hits, DOMAIN hits)
\* the ordered pairs (x, y) of the caller's two segments
Pairs(rec) ==
  {<<rec.segs[1][i], rec.segs[2][j]>> :
     i \in 1..Len(rec.segs[1]), j \in 1..Len(rec.segs[2])}

\* C19: the strategy loop invokes is fixed by the compilation context
\* (device code or host code) and not by context.exec_place: two calls
\* that differ only in exec_place invoke the same strategy with the same
\* segments.
C19_StrategyByCompilation ==
  /\ \A n \in LoopCalls :
       lp[n].strategy =
         (IF lp[n].deviceCode THEN "device_policy_t" ELSE "host_policy_t")
  /\ \A n, o \in LoopCalls :
       (/\ lp[n].deviceCode = lp[o].deviceCode
        /\ lp[n].segs = lp[o].segs
        /\ lp[n].ctx.teams = lp[o].ctx.teams
        /\ lp[n].ctx.threads = lp[o].ctx.threads)
       => /\ lp[n].strategy = lp[o].strategy
          /\ lp[n].passed = lp[o].passed
          /\ (lp[n].returned /\ lp[o].returned
                => lp[n].cursor = lp[o].cursor)

\* two 3-D calls from device code that differ only in exec_place
C19_Witness ==
  /\ Len(lp) = 2
  /\ lp[1].deviceCode /\ lp[2].deviceCode
  /\ lp[1].segs = lp[2].segs
  /\ Len(lp[1].segs) = 3
  /\ lp[1].ctx.exec_place = "HOST"
  /\ lp[2].ctx.exec_place = "DEVICE"
  /\ lp[2].returned

\* C20: a 2-D loop over sizes (Sx, Sy) hands segment0 and segment1 to the
\* strategy in the caller's order and invokes the body Sx*Sy times in
\* total over all units, once for each ordered pair (x, y) and never
\* twice for the same pair.
C20_Loop2DOncePerPair ==
  \A n \in LoopCalls :
    Len(lp[n].segs) = 2 =>
      /\ lp[n].passed = lp[n].segs
      /\ DOMAIN lp[n].hits \subseteq Pairs(lp[n])
      /\ \A a \in DOMAIN lp[n].hits : lp[n].hits[a] = 1
      /\ lp[n].returned =>
           /\ DOMAIN lp[n].hits = Pairs(lp[n])
           /\ Total(lp[n].hits) = Len(lp[n].segs[1]) * Len(lp[n].segs[2])

\* a 2 x 2 loop run by the four units of the device strategy
C20_Witness ==
  /\ Len(lp) >= 1
  /\ LET rec == lp[Len(lp)]
     IN /\ rec.returned
        /\ rec.strategy = "device_policy_t"
        /\ Len(rec.segs) = 2
        /\ Len(rec.segs[1]) = 2 /\ Len(rec.segs[2]) = 2
        /\ \A u \in AllThreads : rec.cursor[u] = 1


----------------------------------------------------------------------------
(* Properties of loop followed by teamSync (checked under SpecLoopSync) *)

AllIterations == 0..(ls.n - 1)
PastLoop(t) == ls.tpc[t] \in {"next", "end"}

\* C21: loop performs no barrier, so a thread can reach the statement
\* after the loop while iterations of its team are outstanding; only when
\* the body calls teamSync after the loop have all of the team's
\* iterations completed before any thread goes on.
C21_OnlyTeamSyncOrders ==
  ls.active =>
    /\ ls.sync => \A t \in DOMAIN ls.tpc : PastLoop(t) => ls.done = AllIterations
    /\ ls.sync => ~ls.early
    /\ ls.early => \E t \in DOMAIN ls.tpc : PastLoop(t)
    /\ \A t \in DOMAIN ls.tpc : ls.tpc[t] = "sync" => ls.sync

\* without teamSync: a thread is at the next statement while another
\* thread still has iterations of the loop to run
C21_Witness ==
  /\ ls.active
  /\ ~ls.sync
  /\ \E t, u \in DOMAIN ls.tpc :
       /\ ls.tpc[t] = "next"
       /\ ls.tpc[u] = "loop"
       /\ ls.cursor[u] < ls.n
  /\ ls.done # AllIterations


----------------------------------------------------------------------------
(* Properties of the compute-unit cache of getGridDim *)

\* C22: over any sequence of getGridDim calls by one host thread the
\* compute-unit count of device 0 is queried from the hardware at most
\* once, whatever value the query leaves in the cache, 0 included.
C22_QueriedAtMostOnce == queries <= 1


RaceOver == race.active /\ \A h \in HostThreads : race.rpc[h] = "done"
\* what a single-threaded first call returns
SingleThreaded ==
  getGridDim(race.len, race.blockDim,
             NumSmAfterQuery([d \in 0..7 |-> 0], 0, hw_num_sm)[0],
             MAX_THREADS_PER_SM)

\* C23: two host threads making their first getGridDim call at the same
\* time can both find the slot uninitialised and both query and write it;
\* with a query that reports the same value each time, every interleaving
\* ends with the slot holding that value and both calls returning the
\* grid size of a single-threaded call.
C23_RacingFirstCalls ==
  /\ race.active =>
       /\ num_sm[0] \in {0, hw_num_sm}
       /\ \A h \in HostThreads :
            race.rpc[h] \in {"size", "done"} => num_sm[0] = hw_num_sm
  /\ RaceOver =>
       /\ num_sm[0] = hw_num_sm
       /\ \A h \in HostThreads : race.result[h] = SingleThreaded

\* both threads found the slot uninitialised and both queried
C23_Witness ==
  /\ RaceOver
  /\ queries = 2
  /\ hw_num_sm = 20
  /\ race.result[1] > 1


----------------------------------------------------------------------------
(* Properties of the descriptors (checked under SpecDesc) *)

\* dimension d of a geometry built from args: the given value, else 1
Filled(args, d) == IF d <= Len(args) THEN args[d] ELSE 1

\* C24: a default-constructed descriptor is Teams (1,1,1), Threads
\* (1,1,1), Lanes 0; Teams and Threads built from fewer than three values
\* hold them in the leading dimensions and 1 in the others;
\* Resources(teams, threads) keeps both and leaves Lanes at 0.
C24_ConstructorDefaults ==
  conc.active =>
    /\ \A d \in 1..3 : conc.built.teams[d] = Filled(conc.targs, d)
    /\ \A d \in 1..3 : conc.built.threads[d] = Filled(conc.hargs, d)
    /\ conc.built.lanes = 0
    /\ conc.dflt =>
         conc.built = [teams |-> <<1, 1, 1>>, threads |-> <<1, 1, 1>>,
                       lanes |-> 0]

\* Resources(Teams(2, 2), Threads(2))
C24_Witness ==
  /\ conc.active
  /\ ~conc.dflt
  /\ conc.targs = <<2, 2>>
  /\ conc.hargs = <<2>>
  /\ conc.built.teams = <<2, 2, 1>>
  /\ conc.built.threads = <<2, 1, 1>>

\* C25: in every descriptor and context that can be constructed and
\* passed to launch, each Teams and each Threads dimension is >= 1, for
\* all integer constructor arguments.
C25_DimensionsAtLeastOne ==
  conc.active =>
    \A l \in LaunchIds :
      (conc.lst[l] = "running" /\ ~conc.touched[l]) =>
         \A d \in 1..3 : conc.ctxs[l].teams[d] >= 1 /\ conc.ctxs[l].threads[d] >= 1

Untouched(l) == conc.lst[l] = "running" /\ ~conc.touched[l]

\* C26: each launch builds its own context as a copy of the caller's
\* descriptor: the descriptor is never changed by a launch, and what the
\* body of one launch does to its context shows neither in the context of
\* the other launch nor in the descriptor.
C26_ContextPerLaunch ==
  conc.active =>
    /\ conc.desc = conc.built
    /\ \A l \in LaunchIds :
         Untouched(l) => conc.ctxs[l] = LaunchContext(conc.built, conc.place[l])
    /\ \A l \in LaunchIds :
         conc.touched[l] /\ conc.lst[l] = "running" =>
           conc.ctxs[l] =
             [LaunchContext(conc.built, conc.place[l]) EXCEPT !.teams = Teams1(7 + l)]

\* launch 1 has written to its context while launch 2 runs on its own
C26_Witness ==
  /\ conc.active
  /\ conc.touched[1] /\ conc.lst[1] = "running"
  /\ Untouched(2)
  /\ conc.ctxs[1].teams # conc.ctxs[2].teams
  /\ conc.place[1] = "DEVICE" /\ conc.place[2] = "HOST"


----------------------------------------------------------------------------
(* Termination of issued kernels (checked under SpecFair) *)

InStream(id) == \E i \in 1..Len(stream) : stream[i].id = id
IdsOf(st) == {st[i].id : i \in 1..Len(st)}
DoneIn(st, id) == \E i \in 1..Len(st) : st[i].id = id /\ KernelDone(st[i])

\* C27: an issued kernel runs to completion: with fair scheduling of the
\* execution units every unit's strided loop ends, so every issued kernel
\* eventually completes and a synchronous forall eventually returns; a
\* kernel leaves its stream only by completing.
C27_IssuedKernelsComplete ==
  /\ \A id \in 1..(MaxCalls + 1) : InStream(id) ~> ~InStream(id)
  /\ (pc = "sync") ~> (pc = "idle" /\ call.ret = "complete")
  /\ [][\A id \in IdsOf(stream) \ IdsOf(stream') : DoneIn(stream, id)]_vars

\* a synchronous forall has returned after one unit ran three passes of
\* its strided loop
C27_Witness ==
  /\ pc = "idle"
  /\ ~call.async
  /\ call.ret = "complete"
  /\ call.len = 3
  /\ call.gridSize = 1 /\ call.bs = 1
  /\ call.invoked = 3


----------------------------------------------------------------------------
(* Properties of the OpenMP forall and reductions (checked under SpecOmp) *)

OmpReturned == omp.active /\ omp.opc = "returned"
\* the indices of the range, with the stride of the strided versions
RangeOf(o) == {i \in o.begin..(o.end - 1) : (i - o.begin) % o.stride = 0}
RECURSIVE SumF(_)
SumF(S) ==
  IF S = {} THEN 0
  ELSE LET i == CHOOSE j \in S : TRUE IN ValAt(i) + SumF(S \ {i})
MinOf(S) == CHOOSE v \in S : \A w \in S : v <= w
MaxOf(S) == CHOOSE v \in S : \A w \in S : v >= w

\* C28: forall over [begin, end), and over an indirection array of
\* length len, invokes the body once for each index (once for each
\* position k, with idx[k]) for every number of threads and every
\* assignment of iterations to threads, all of them before it returns; an
\* empty range invokes it zero times.
C28_OmpForallOncePerIndex ==
  (omp.active /\ omp.kind \in {"forall", "forall_idx"}) =>
    /\ DOMAIN omp.visits = omp.begin..(omp.end - 1)
    /\ \A k \in DOMAIN omp.visits :
         /\ Len(omp.visits[k]) <= 1
         /\ \A n \in 1..Len(omp.visits[k]) :
              omp.visits[k][n] = (IF omp.kind = "forall" THEN k ELSE IdxAt(k))
    /\ OmpReturned => \A k \in omp.begin..(omp.end - 1) : Len(omp.visits[k]) = 1
    /\ omp.end <= omp.begin => \A k \in DOMAIN omp.visits : FALSE

\* an indirection array of three positions run by two threads
C28_Witness ==
  /\ OmpReturned
  /\ omp.kind = "forall_idx"
  /\ omp.begin = 0 /\ omp.end = 3
  /\ omp.nthreads = 2
  /\ omp.visits[2] = <<IdxAt(2)>>

\* C29: forall_sum leaves *sum equal to its value before the call plus
\* the sum of f(i) over the indices of the range, for every number of
\* threads and every assignment of iterations; it never resets *sum.
C29_OmpSumAccumulates ==
  (OmpReturned /\ omp.kind \in {"sum", "sum_stride"}) =>
    omp.out.val = omp.in + SumF(RangeOf(omp))

\* three indices summed by two threads onto an incoming 5
C29_Witness ==
  /\ OmpReturned
  /\ omp.kind = "sum"
  /\ omp.in = 5
  /\ omp.begin = 0 /\ omp.end = 3
  /\ omp.nthreads = 2
  /\ omp.tmp[0].val > 0 /\ omp.tmp[1].val > 0
  /\ omp.out.val = 5 + ValAt(0) + ValAt(1) + ValAt(2)

\* C30: forall_minloc leaves *min equal to the minimum of the incoming
\* *min and the values at all indices of the range, and forall_maxloc
\* the maximum, for every number of threads and every assignment of
\* iterations; the incoming value is an initial candidate.
C30_OmpMinlocIncludesIncoming ==
  /\ (OmpReturned /\ omp.kind = "minloc") =>
       omp.out.val = MinOf({omp.in} \cup {ValAt(i) : i \in RangeOf(omp)})
  /\ (OmpReturned /\ omp.kind = "maxloc") =>
       omp.out.val = MaxOf({omp.in} \cup {ValAt(i) : i \in RangeOf(omp)})

\* the incoming minimum is smaller than every value of the range
C30_Witness ==
  /\ OmpReturned
  /\ omp.kind = "minloc"
  /\ omp.in = 0 - 1
  /\ omp.begin = 0 /\ omp.end = 3
  /\ omp.nthreads = 2
  /\ omp.out.val = 0 - 1

----------------------------------------------------------------------------
(* forall over an index set *)

ISetReturned == iset.active /\ iset.ipc = "returned"

\* the kernels in flight are those of distinct segments, oldest first
SegmentOrder ==
  \A i \in 1..Len(stream) :
    /\ stream[i].id \in 1..Len(iset.lens)
    /\ stream[i].id <= call.id
    /\ stream[i].len = iset.lens[stream[i].id]
    /\ i > 1 => stream[i - 1].id < stream[i].id

\* C31: forall over an index set issues the segments' kernels one after
\* another in segment order, launches every segment asynchronously
\* whatever Async is (the host never waits between segments), and when
\* Async is false synchronizes exactly once after the last segment, so
\* that on return no kernel of any segment is still running.
C31_SegmentsInOrderOneSync ==
  iset.active =>
    /\ SegmentOrder
    /\ call.id \in {iset.isi, iset.isi + 1}
    /\ call.id > 0 => call.async
    /\ pc # "sync"
    /\ iset.syncs = IF iset.ipc = "returned" /\ ~iset.async THEN 1 ELSE 0
    /\ iset.ipc = "sync" => iset.isi = Len(iset.lens)
    /\ (iset.ipc = "returned" /\ ~iset.async) =>
         /\ stream = <<>>
         /\ call.id = Len(iset.lens)

\* a synchronous forall over two non-empty segments has returned
C31_Witness ==
  /\ ISetReturned
  /\ ~iset.async
  /\ iset.lens = <<MaxLen, 1>>
  /\ call.id = 2
  /\ call.invoked = 1
  /\ iset.syncs = 1
  /\ stream = <<>>

\* C32: forall_Icount over an index set invokes the body, for every
\* segment s and every position i of s, exactly once with
\* (startingIcount(s) + i, s[i]); when the starting counts are the
\* running totals of the segment lengths, the first arguments over the
\* whole index set are 0..total-1, each used exactly once.
FirstArgs(s) == {iset.icounts[s] + i : i \in 0..(iset.lens[s] - 1)}

C32_IcountOverSegments ==
  (iset.active /\ iset.kind = "forall_Icount") =>
    /\ \A n \in 1..Len(stream) :
         LET k == stream[n]
         IN  \A p \in 0..(k.len - 1) :
               /\ Len(k.visits[p]) <= 1
               /\ \A v \in 1..Len(k.visits[p]) :
                    k.visits[p][v] = <<iset.icounts[k.id] + p, IdxAt(p)>>
               /\ KernelDone(k) => Len(k.visits[p]) = 1
    /\ (iset.icounts = StartingIcounts(iset.lens, 0)) =>
         /\ UNION {FirstArgs(s) : s \in 1..Len(iset.lens)}
              = 0..(TotalLen(iset.lens, Len(iset.lens)) - 1)
         /\ \A s, t \in 1..Len(iset.lens) :
              s # t => FirstArgs(s) \cap FirstArgs(t) = {}

\* the kernel of the second segment has run to its end, counting on from
\* the length of the first
C32_Witness ==
  /\ iset.active
  /\ iset.kind = "forall_Icount"
  /\ iset.lens = <<MaxLen, 1>>
  /\ iset.icounts = <<0, MaxLen>>
  /\ Len(stream) = 1
  /\ stream[1].id = 2
  /\ KernelDone(stream[1])
  /\ stream[1].visits[0] = <<(<<MaxLen, IdxAt(0)>>)>>

----------------------------------------------------------------------------
(* the instrumentation region of kernel_impl *)

PostHooks == {i \in 1..Len(mux.log) : mux.log[i][1] = "post"}

\* C33: kernel_impl begins a region context on every call and the context
\* is ended only inside the post-launch hook of the matched variant: with
\* a selector in [0, numPolicies) the begin is followed by exactly one end
\* before kernel_impl returns, with a selector out of range the begun
\* context is never ended.
C33_EndOnlyInPostHook ==
  mux.active =>
    /\ mux.ends = Cardinality(PostHooks)
    /\ mux.ends = 0 <=> mux.rctx = "begun"
    /\ \A i \in PostHooks : mux.log[i][2] = mux.policy
    /\ MuxReturned =>
         mux.ends = IF mux.policy \in 0..(mux.num_policies - 1) THEN 1 ELSE 0

\* a selector equal to the number of variants: kernel_impl has returned
\* with its context still open
C33_Witness ==
  /\ MuxReturned
  /\ mux.num_policies = 2
  /\ mux.policy = 2
  /\ mux.idx = 2
  /\ mux.log = <<>>
  /\ mux.rctx = "begun"
  /\ mux.ends = 0

\* the steps of a matched asynchronous variant, on callback data c
AsyncSteps(c) ==
  <<(<<"get", c>>), (<<"attach", c>>), (<<"start", c>>),
    (<<"kernel", mux.policy>>), (<<"stop", c>>), (<<"end", 0>>)>>

\* C35: for the asynchronous-kernel variant the hook steps happen in the
\* order: take callback data from the pool and attach it with the is-done
\* callback to the context, record the start event, issue the kernel,
\* record the stop event, call region end; the stop event is recorded on
\* the callback data the pre-launch hook attached to the context.
C35_AsyncHookSteps ==
  (InRange /\ mux.kinds[mux.policy + 1] = "CudaKernelAsync") =>
    /\ Len(mux.events) <= 6
    /\ mux.events = SubSeq(AsyncSteps(1), 1, Len(mux.events))
    /\ Len(mux.events) >= 3 => mux.cbarg = 1 /\ mux.callback
    /\ MuxReturned => mux.events = AsyncSteps(mux.cbarg)

\* the asynchronous second variant of three has been run to the end of
\* its post-launch hook
C35_Witness ==
  /\ MuxReturned
  /\ mux.num_policies = 3
  /\ mux.policy = 1
  /\ mux.kinds[2] = "CudaKernelAsync"
  /\ mux.cbarg = 1
  /\ Len(mux.events) = 6
  /\ mux.events[5] = <<"stop", 1>>
  /\ mux.events[6] = <<"end", 0>>

\* C34: over any sequence of kernel_impl calls by one host thread the
\* region and its callback pool are created exactly once, on the first
\* call, and every later call uses that same region; two host threads
\* making their first calls at the same time can both find the region
\* absent, and then two regions and two pools are created.
C34_RegionCreatedOnce ==
  reg.active =>
    /\ reg.regions <= Len(reg.rpc)
    /\ reg.pools <= Len(reg.rpc)
    /\ reg.regions <= reg.pools
    /\ Len(reg.rpc) = 1 =>
         /\ reg.calls[1] >= 1 => reg.regions = 1 /\ reg.pools = 1
         /\ \A n \in 1..Len(reg.used[1]) : reg.used[1][n] = 1
         /\ reg.regions = 1 => reg.poolOf = <<1>>

\* both threads found the region absent on their first calls: two regions
\* and two pools exist
C34_Witness ==
  /\ reg.active
  /\ Len(reg.rpc) = 2
  /\ reg.calls = <<1, 1>>
  /\ reg.regions = 2
  /\ reg.pools = 2

----------------------------------------------------------------------------
(* the grid-stride loop of forall_cuda_kernel *)

\* the positions unit u of kernel k has invoked the body on
VisitedBy(k, u) ==
  {p \in 0..(k.len - 1) : \E n \in 1..Len(k.by[p]) : k.by[p][n] = u}

\* the positions of [0, N) that are congruent to g modulo S
Residue(k, g) ==
  {p \in 0..(k.len - 1) : p % (k.gridDim * k.blockDim) = g}

\* C36: with S = gridDim.x * blockDim.x units, the unit with global index
\* g visits exactly the positions i of [0, N) with i mod S = g, in
\* increasing order; a unit with g >= N invokes the body zero times, and
\* the numbers of positions visited by any two units differ by at most 1.
C36_UnitVisitsItsResidue ==
  \A k \in Kernels : \A u \in DOMAIN k.ii :
    LET g == getGlobalIdx_1D_1D(u[1], u[2], k.blockDim)
    IN  /\ VisitedBy(k, u) = {p \in Residue(k, g) : p < k.ii[u]}
        /\ \A p \in VisitedBy(k, u) : k.by[p] = <<u>>
        /\ g >= k.len => VisitedBy(k, u) = {}
        /\ KernelDone(k) =>
             /\ VisitedBy(k, u) = Residue(k, g)
             /\ \A w \in DOMAIN k.ii :
                  Cardinality(VisitedBy(k, u))
                    <= Cardinality(VisitedBy(k, w)) + 1

\* three positions and two units: one unit has visited 0 then 2, the
\* other 1
C36_Witness ==
  \E k \in Kernels :
    /\ KernelDone(k)
    /\ k.len = 3
    /\ k.gridDim * k.blockDim = 2
    /\ \E u, w \in DOMAIN k.ii :
         /\ VisitedBy(k, u) = {0, 2}
         /\ VisitedBy(k, w) = {1}

----------------------------------------------------------------------------
(* forall over a HybridISet *)

HybridActive == omp.active /\ omp.kind = "hybrid"
HybridReturned == HybridActive /\ omp.opc = "returned"

\* C37: forall over a HybridISet with omp_parallel_for_segit invokes the
\* body once for every index of every Range segment and of every
\* Unstructured segment, the segments being processed concurrently in no
\* fixed order, and zero times for a segment of any other type
\* (RangeStride included), without reporting an error.
C37_HybridSegmentsByType ==
  HybridActive =>
    \A isi \in 1..Len(omp.segs) :
      LET seg == omp.segs[isi]
          v == omp.visits[isi]
      IN  /\ seg.type = "_Range_" =>
               /\ DOMAIN v = seg.begin..(seg.end - 1)
               /\ \A i \in DOMAIN v :
                    /\ v[i] \in {<<>>, <<i>>}
                    /\ HybridReturned => v[i] = <<i>>
          /\ seg.type = "_Unstructured_" =>
               /\ DOMAIN v = 0..(seg.end - seg.begin - 1)
               /\ \A k \in DOMAIN v :
                    /\ v[k] \in {<<>>, <<IdxAt(k)>>}
                    /\ HybridReturned => v[k] = <<IdxAt(k)>>
          /\ seg.type \notin {"_Range_", "_Unstructured_"} => DOMAIN v = {}

\* a strided range followed by an index array: the call has returned
\* having run the second segment only
C37_Witness ==
  /\ HybridReturned
  /\ Len(omp.segs) = 2
  /\ omp.segs[1] = [type |-> "_RangeStride_", begin |-> 0, end |-> 2]
  /\ omp.segs[2] = [type |-> "_Unstructured_", begin |-> 0, end |-> 2]
  /\ DOMAIN omp.visits[1] = {}
  /\ omp.visits[2][0] = <<IdxAt(0)>>
  /\ omp.visits[2][1] = <<IdxAt(1)>>

----------------------------------------------------------------------------
(* the partial results of the OpenMP reductions *)

Reductions == {"sum", "sum_stride", "minloc", "maxloc"}
ReductionActive == omp.active /\ omp.kind \in Reductions
RECURSIVE SlotSum(_, _)
SlotSum(tmp, n) == IF n = 0 THEN 0 ELSE SlotSum(tmp, n - 1) + tmp[n - 1].val

\* C38: in forall_sum, forall_minloc and forall_maxloc every thread reads
\* and writes only its own slot tmp[thread number] during the parallel
\* loop, the thread number is below the slot count, and the sequential
\* combine step reads the slots only after all iterations of all threads
\* have completed; no slot is used by two threads and no partial result
\* is lost.
C38_OwnSlotOnly ==
  ReductionActive =>
    /\ DOMAIN omp.owner = 0..(omp.nthreads - 1)
    /\ DOMAIN omp.tmp = DOMAIN omp.owner
    /\ \A s \in DOMAIN omp.owner : omp.owner[s] \subseteq {s}
    /\ \A s \in DOMAIN omp.owner :
         omp.owner[s] = {} => omp.tmp[s] = TmpInit(omp.kind, omp.in, omp.inloc)
    /\ omp.opc = "parallel" => omp.out = [val |-> omp.in, loc |-> omp.inloc]
    /\ omp.opc = "returned" =>
         /\ omp.pending = {}
         /\ omp.kind \in {"sum", "sum_stride"} =>
              /\ omp.out.val = omp.in + SlotSum(omp.tmp, omp.nthreads)
              /\ SlotSum(omp.tmp, omp.nthreads) = SumF(RangeOf(omp))

\* both threads of a team of two have added into their slots and the
\* sum has been combined
C38_Witness ==
  /\ ReductionActive
  /\ omp.opc = "returned"
  /\ omp.kind = "sum"
  /\ omp.nthreads = 2
  /\ omp.begin = 0 /\ omp.end = 3
  /\ omp.owner = [s \in {0, 1} |-> {s}]

RECURSIVE InOrderResult(_, _, _, _)
InOrderResult(kind, i, end, tmp) ==
  IF i >= end THEN tmp
  ELSE InOrderResult(kind, i + 1, end, Body(kind, i, tmp))

\* C40 (as claimed): for fixed inputs to forall_minloc / forall_maxloc the
\* returned location is the same under every assignment of iterations to
\* threads (so it is the location a single thread running the range in
\* order returns), and it is an index whose value equals the returned
\* extremum, or the incoming *loc when no value beats the incoming
\* extremum.
C40_LocationIndependentOfThreads ==
  (OmpReturned /\ omp.kind \in {"minloc", "maxloc"}) =>
    /\ omp.out.loc =
         InOrderResult(omp.kind, omp.begin, omp.end,
                       TmpInit(omp.kind, omp.in, omp.inloc)).loc
    /\ IF omp.out.val = omp.in /\ omp.out.loc = omp.inloc
       THEN TRUE
       ELSE /\ omp.out.loc \in RangeOf(omp)
            /\ ValAt(omp.out.loc) = omp.out.val

====
